---- MODULE Spec2Model ----
(***************************************************************************)
(* TrailSync storage layer: SecureStorage (AES-GCM envelopes in            *)
(* localStorage, key derived from a device fingerprint) and                *)
(* FallbackStorage (base64 + character shift).                             *)
(*                                                                         *)
(* Strings are sequences of UTF-16 code units, byte arrays are sequences   *)
(* of 0..255.  Every async function is cut at its awaits: one action per   *)
(* resumption, so that calls interleave exactly where the event loop lets  *)
(* them.                                                                   *)
(***************************************************************************)
EXTENDS Integers, Sequences, FiniteSets, TLC

(***************************************************************************)
(* Bounds of the model.                                                    *)
(***************************************************************************)
\* draws of crypto.getRandomValues, one per setItem call
MaxDraws == 2
\* decryptions one getItem call is followed through
MaxAttempts == 3

(***************************************************************************)
(* JSON values and JSON.stringify / JSON.parse.                            *)
(***************************************************************************)
NullV == [t |-> "null", n |-> 0, s |-> <<>>, a |-> <<>>]
NumV(n) == [t |-> "num", n |-> n, s |-> <<>>, a |-> <<>>]
StrV(s) == [t |-> "str", n |-> 0, s |-> s, a |-> <<>>]
ArrV(a) == [t |-> "arr", n |-> 0, s |-> <<>>, a |-> a]

\* the plain values callers store: a number, a string holding a quote and a
\* non-ASCII letter ("e-acute), and a one-element array
PlainValues == {NumV(42), StrV(<<34, 233>>), ArrV(<<NumV(7)>>)}
JsonValues == PlainValues \cup {NullV, NumV(7)}

RECURSIVE DecimalDigits(_)
DecimalDigits(n) ==
  IF n < 10 THEN <<48 + n>>
  ELSE DecimalDigits(n \div 10) \o <<48 + (n % 10)>>

RECURSIVE QuoteChars(_)
QuoteChars(s) ==
  IF Len(s) = 0 THEN <<>>
  ELSE (IF Head(s) = 34 \/ Head(s) = 92 THEN <<92, Head(s)>> ELSE <<Head(s)>>)
       \o QuoteChars(Tail(s))

RECURSIVE JsonStringify(_)
RECURSIVE JoinItems(_)
JoinItems(a) ==
  IF Len(a) = 0 THEN <<>>
  ELSE IF Len(a) = 1 THEN JsonStringify(a[1])
  ELSE JsonStringify(a[1]) \o <<44>> \o JoinItems(Tail(a))

JsonStringify(v) ==
  CASE v.t = "null" -> <<110, 117, 108, 108>>
    [] v.t = "num" -> DecimalDigits(v.n)
    [] v.t = "str" -> <<34>> \o QuoteChars(v.s) \o <<34>>
    [] v.t = "arr" -> <<91>> \o JoinItems(v.a) \o <<93>>

\* JSON.parse: the value whose JSON text this is, or a SyntaxError
JsonParse(text) ==
  IF \E v \in JsonValues : JsonStringify(v) = text
  THEN [ok |-> TRUE, v |-> CHOOSE v \in JsonValues : JsonStringify(v) = text]
  ELSE [ok |-> FALSE, v |-> NullV]

(***************************************************************************)
(* TextEncoder / TextDecoder (UTF-8), and the same conversion as spelled   *)
(* by unescape(encodeURIComponent(s)) and decodeURIComponent(escape(b)).   *)
(***************************************************************************)
RECURSIVE Utf8Encode(_)
Utf8Encode(s) ==
  IF Len(s) = 0 THEN <<>>
  ELSE LET c == Head(s) IN
       (IF c < 128 THEN <<c>>
        ELSE IF c < 2048 THEN <<192 + (c \div 64), 128 + (c % 64)>>
        ELSE <<224 + (c \div 4096), 128 + ((c \div 64) % 64), 128 + (c % 64)>>)
       \o Utf8Encode(Tail(s))

IsCont(b) == b >= 128 /\ b < 192

RECURSIVE Utf8Valid(_)
Utf8Valid(b) ==
  IF Len(b) = 0 THEN TRUE
  ELSE IF b[1] < 128 THEN Utf8Valid(Tail(b))
  ELSE IF b[1] >= 194 /\ b[1] < 224
       THEN Len(b) >= 2 /\ IsCont(b[2]) /\ Utf8Valid(SubSeq(b, 3, Len(b)))
  ELSE IF b[1] >= 224 /\ b[1] < 240
       THEN Len(b) >= 3 /\ IsCont(b[2]) /\ IsCont(b[3])
            /\ Utf8Valid(SubSeq(b, 4, Len(b)))
  ELSE FALSE

RECURSIVE Utf8Chars(_)
Utf8Chars(b) ==
  IF Len(b) = 0 THEN <<>>
  ELSE IF b[1] < 128 THEN <<b[1]>> \o Utf8Chars(Tail(b))
  ELSE IF b[1] < 224
       THEN <<(b[1] - 192) * 64 + (b[2] - 128)>> \o Utf8Chars(SubSeq(b, 3, Len(b)))
  ELSE <<(b[1] - 224) * 4096 + (b[2] - 128) * 64 + (b[3] - 128)>>
       \o Utf8Chars(SubSeq(b, 4, Len(b)))

\* decodeURIComponent(escape(binary)): URIError on malformed UTF-8
Utf8Decode(b) ==
  IF Utf8Valid(b) THEN [ok |-> TRUE, s |-> Utf8Chars(b)]
  ELSE [ok |-> FALSE, s |-> <<>>]

(***************************************************************************)
(* btoa / atob.                                                            *)
(***************************************************************************)
B64Char(i) ==
  IF i < 26 THEN 65 + i
  ELSE IF i < 52 THEN 97 + (i - 26)
  ELSE IF i < 62 THEN 48 + (i - 52)
  ELSE IF i = 62 THEN 43 ELSE 47

B64Index(c) ==
  IF c >= 65 /\ c <= 90 THEN c - 65
  ELSE IF c >= 97 /\ c <= 122 THEN c - 97 + 26
  ELSE IF c >= 48 /\ c <= 57 THEN c - 48 + 52
  ELSE IF c = 43 THEN 62
  ELSE IF c = 47 THEN 63
  ELSE -1

RECURSIVE Btoa(_)
Btoa(b) ==
  IF Len(b) = 0 THEN <<>>
  ELSE IF Len(b) = 1
       THEN <<B64Char(b[1] \div 4), B64Char((b[1] % 4) * 16), 61, 61>>
  ELSE IF Len(b) = 2
       THEN <<B64Char(b[1] \div 4), B64Char((b[1] % 4) * 16 + (b[2] \div 16)),
              B64Char((b[2] % 16) * 4), 61>>
  ELSE <<B64Char(b[1] \div 4), B64Char((b[1] % 4) * 16 + (b[2] \div 16)),
         B64Char((b[2] % 16) * 4 + (b[3] \div 64)), B64Char(b[3] % 64)>>
       \o Btoa(SubSeq(b, 4, Len(b)))

\* atob first drops one or two trailing "=" of a text whose length is a
\* multiple of four
StripPadding(s) ==
  IF Len(s) > 0 /\ Len(s) % 4 = 0 /\ s[Len(s)] = 61
  THEN IF s[Len(s) - 1] = 61 THEN SubSeq(s, 1, Len(s) - 2)
       ELSE SubSeq(s, 1, Len(s) - 1)
  ELSE s

RECURSIVE AtobBytes(_)
AtobBytes(d) ==
  IF Len(d) < 2 THEN <<>>
  ELSE LET i1 == B64Index(d[1])
           i2 == B64Index(d[2])
       IN IF Len(d) = 2 THEN <<i1 * 4 + (i2 \div 16)>>
          ELSE LET i3 == B64Index(d[3]) IN
               IF Len(d) = 3
               THEN <<i1 * 4 + (i2 \div 16), (i2 % 16) * 16 + (i3 \div 4)>>
               ELSE <<i1 * 4 + (i2 \div 16), (i2 % 16) * 16 + (i3 \div 4),
                      (i3 % 4) * 64 + B64Index(d[4])>>
                    \o AtobBytes(SubSeq(d, 5, Len(d)))

\* atob: InvalidCharacterError on a character outside the alphabet or on a
\* length of 1 modulo 4
Atob(s) ==
  LET d == StripPadding(s) IN
  IF Len(d) % 4 # 1 /\ \A i \in 1..Len(d) : B64Index(d[i]) >= 0
  THEN [ok |-> TRUE, bytes |-> AtobBytes(d)]
  ELSE [ok |-> FALSE, bytes |-> <<>>]

\* String(undefined), what atob receives for a property that is not there
UndefinedText == <<117, 110, 100, 101, 102, 105, 110, 101, 100>>

(***************************************************************************)
(* Platform crypto.  A key is the byte PBKDF2 derives from a fingerprint;   *)
(* AES-GCM is modelled by its contract: the ciphertext carries a tag that   *)
(* only the same key and nonce verify, anything else is an OperationError.  *)
(***************************************************************************)
\* this.encryptionKey = null
NoKey == 0
\* the fingerprint of this device, and the one of another device whose
\* data or key blob reached this storage by sync
DeviceFingerprint == 1
ForeignFingerprint == 2
\* new Uint8Array(12)
IvLength == 12

DeriveKey(fingerprint) == (fingerprint * 37 + 11) % 256

\* a generator that returns the same bytes on every draw
ConstantIv(n) == [i \in 1..IvLength |-> 0]

\* crypto.getRandomValues: the n-th draw of the generator; draws of a
\* cryptographic generator are taken to be pairwise distinct
RandomIv(n) == [i \in 1..IvLength |-> IF i = IvLength THEN n % 256 ELSE 0]

AuthTag(key, iv) == <<key>> \o iv

Encrypt(key, iv, plain) ==
  [i \in 1..Len(plain) |-> (plain[i] + key) % 256] \o AuthTag(key, iv)

Decrypt(key, iv, cipher) ==
  LET n == Len(cipher) - (IvLength + 1) IN
  IF n >= 0 /\ SubSeq(cipher, n + 1, Len(cipher)) = AuthTag(key, iv)
  THEN [ok |-> TRUE, plain |-> [i \in 1..n |-> (cipher[i] - key) % 256]]
  ELSE [ok |-> FALSE, plain |-> <<>>]

(***************************************************************************)
(* localStorage: names are a prefix and a rest, entries are texts.          *)
(***************************************************************************)
LogicalKeys == {"shoes", "activities"}
\* the key SecurityCore writes its test value under
TestKey == "security_test"
KeyBlobName == <<"trailsync_encKey_v2", "">>
SecureName(key) == <<"secure_", key>>
FallbackName(key) == <<"fallback_", key>>
OtherName == <<"theme", "">>
StorageNames ==
  {KeyBlobName, OtherName}
    \cup {SecureName(k) : k \in LogicalKeys \cup {TestKey}}
    \cup {FallbackName(k) : k \in LogicalKeys}
StartsWith(name, prefix) == name[1] = prefix

\* no entry: localStorage.getItem returns null
Absent == [kind |-> "absent"]
\* a text that is no JSON, or FallbackStorage's obfuscated text
TextEntry(chars) == [kind |-> "text", chars |-> chars]
\* JSON.stringify(jwk)
JwkEntry(key) == [kind |-> "jwk", k |-> key]
\* the JSON text of an object whose properties are `fields`
EnvelopeEntry(fields, iv, data) ==
  [kind |-> "envelope", fields |-> fields, iv |-> iv, data |-> data]

\* an envelope {iv, data} as getItem reads it, left by an earlier session or
\* by sync from another device
ForeignEnvelope(key, n, v) ==
  EnvelopeEntry({"iv", "data"}, Btoa(RandomIv(n)),
                Btoa(Encrypt(key, RandomIv(n), Utf8Encode(JsonStringify(v)))))

(***************************************************************************)
(* SecureStorage: pure parts.                                               *)
(***************************************************************************)
\* const stored = { iv: ..., ... }: the literal names the property iv; the
\* base64 of the ciphertext follows it without a property name, so no
\* property data reaches the stored JSON
StoredEnvelope(iv, encrypted) == EnvelopeEntry({"iv"}, Btoa(iv), <<>>)

\* const { iv, data } = JSON.parse(stored): a property that is missing is
\* undefined, and atob(undefined) decodes the text "undefined"
Property(entry, name) ==
  IF name \in entry.fields
  THEN (IF name = "iv" THEN entry.iv ELSE entry.data)
  ELSE UndefinedText

\* the try block of getItem up to the decrypt call: does it throw
\* (SyntaxError, TypeError, InvalidCharacterError)?
ReadThrows(entry) ==
  IF entry.kind # "envelope" THEN TRUE
  ELSE IF ~Atob(Property(entry, "iv")).ok THEN TRUE
  ELSE ~Atob(Property(entry, "data")).ok

\* crypto.subtle.decrypt on the envelope under the key passed to the call
DecryptEnvelope(key, entry) ==
  Decrypt(key, Atob(Property(entry, "iv")).bytes,
          Atob(Property(entry, "data")).bytes)

\* JSON.parse(new TextDecoder().decode(decrypted))
DecodePlain(plain) ==
  IF Utf8Decode(plain).ok THEN JsonParse(Utf8Decode(plain).s)
  ELSE [ok |-> FALSE, v |-> NullV]

\* if (!stored): null, or the empty text
Falsy(entry) ==
  IF entry = Absent THEN TRUE
  ELSE IF entry.kind = "text" THEN entry.chars = <<>>
  ELSE FALSE

\* a clear() that leaves the key blob in place
ClearedStorageKeepsKey(st) ==
  [n \in StorageNames |-> IF StartsWith(n, "secure_") THEN Absent ELSE st[n]]

\* clear(): every name starting with secure_, and the key blob
ClearedStorage(st) ==
  [n \in StorageNames |->
     IF StartsWith(n, "secure_") \/ n = KeyBlobName THEN Absent ELSE st[n]]

(***************************************************************************)
(* FallbackStorage: pure parts.                                             *)
(***************************************************************************)
\* 'TRAILSYNC_FALLBACK'.length
ObfuscationKeyLength == 18

\* String.fromCharCode(c.charCodeAt(0) + this.obfuscationKey.length)
Obfuscate(str) ==
  [i \in 1..Len(str) |-> (str[i] + ObfuscationKeyLength) % 65536]

\* a _deobfuscate that shifts by one less than _obfuscate
DeobfuscateShort(str) ==
  [i \in 1..Len(str) |-> (str[i] - (ObfuscationKeyLength - 1)) % 65536]

Deobfuscate(str) ==
  [i \in 1..Len(str) |-> (str[i] - ObfuscationKeyLength) % 65536]

\* btoa(unescape(encodeURIComponent(JSON.stringify(value)))), obfuscated
FallbackEncode(v) == Obfuscate(Btoa(Utf8Encode(JsonStringify(v))))

\* JSON.parse(decodeURIComponent(escape(atob(_deobfuscate(text))))); any
\* throw is caught and becomes null
FallbackDecode(text) ==
  LET b == Atob(Deobfuscate(text)) IN
  IF b.ok /\ Utf8Decode(b.bytes).ok /\ JsonParse(Utf8Decode(b.bytes).s).ok
  THEN [ok |-> TRUE, v |-> JsonParse(Utf8Decode(b.bytes).s).v]
  ELSE [ok |-> FALSE, v |-> NullV]

(***************************************************************************)
(* State.                                                                   *)
(***************************************************************************)
VARIABLES
  storage,        \* localStorage
  encryptionKey,  \* this.encryptionKey
  initPc,         \* where the constructor's _initKey() stands
  initBlob,       \* storedKey, as that _initKey() read it
  task,           \* the setItem / getItem calls, one per slot
  rng,            \* draws of crypto.getRandomValues so far
  written,        \* the envelopes setItem handed to localStorage, in order
  lastSet,        \* per key: the value of the setItem that wrote its entry
  cleared,        \* set by clear() for one step: localStorage as it was
  wiped,          \* clear() ran and no setItem has stored an envelope since
  fbLast,         \* per key: the value FallbackStorage.setItem stored last
  fbResult,       \* what the last FallbackStorage.getItem returned
  hasCrypto,      \* window.crypto && window.crypto.subtle
  securityStatus  \* the last _checkSecurityStatus(): its results, the text shown

\* the page around the stores: the module sandboxes, the GPX parser, the
\* threat monitor and the sanitizer
VARIABLES
  now,              \* Date.now(), in milliseconds
  dom,              \* the iframes in document.body, in document order
  creations,        \* the createSandbox calls: promise, iframe and timer
  pendingMessages,  \* ModuleSandbox.pendingMessages
  dispatched,       \* the sandbox-message custom events dispatched
  parses,           \* the GPXParser.parse calls
  pendingResolvers, \* GPXParser.pendingResolvers
  monitor,          \* the fields of ThreatMonitor
  sink,             \* what SecurityCore.logSecurityEvent handed to its logger
  event,            \* the message event the listeners have just handled
  xss               \* the last call of an XSSProtection method

storeVars ==
  <<storage, encryptionKey, initPc, initBlob, task, rng, written, lastSet,
    cleared, wiped, fbLast, fbResult, hasCrypto, securityStatus>>

pageVars ==
  <<now, dom, creations, pendingMessages, dispatched, parses,
    pendingResolvers, monitor, sink, event, xss>>

vars == <<storeVars, pageVars>>

Tasks == {1, 2}

\* the state of this.keyPromise
KeyState ==
  IF initPc = "ready" THEN "READY"
  ELSE IF initPc = "failed" THEN "FAILED"
  ELSE "DERIVING"

Pending == [kind |-> "pending", val |-> NullV, err |-> ""]
Resolved(v) == [kind |-> "resolved", val |-> v, err |-> ""]
Rejected(e) == [kind |-> "rejected", val |-> NullV, err |-> e]

\* a value a store holds for a key: whether the call that stored it
\* overlapped another setItem on the key, and the key it was encrypted under
NoValue == [has |-> FALSE, v |-> NullV, raced |-> FALSE, ck |-> NoKey]
Some(v, raced, ck) == [has |-> TRUE, v |-> v, raced |-> raced, ck |-> ck]

\* no check has run: the indicator is as the page's markup has it
NotChecked ==
  [checks |-> 0, csp |-> "", storage |-> "", text |-> "", ready |-> FALSE,
   slot |-> 0]

NotCleared == [on |-> FALSE, before |-> [n \in StorageNames |-> Absent]]

\* a call slot.  Beside the locals of the call (key, value, iv, the key and
\* the envelope handed to the pending crypto call) it records what the call
\* did: the security events it logged, the platform call that threw, its
\* decryptions and key derivations, whether it touched an envelope, and what
\* it found when it passed await this.keyPromise, and whether a setItem stored
\* its envelope while a getItem stood in the _initKey() it started.
IdleTask ==
  [op |-> "idle", pc |-> "idle", key |-> "", value |-> NullV, iv |-> <<>>,
   ck |-> NoKey, env |-> Absent, res |-> Pending, decrypts |-> 0,
   derives |-> 0, overlap |-> FALSE, expect |-> NoValue, touched |-> FALSE,
   fault |-> "none", logged |-> {}, absent |-> FALSE, wiped |-> FALSE,
   rotating |-> FALSE]

InFlight(t) == task[t].pc \notin {"idle", "done"}

\* window.security?.logSecurityEvent(type, ...) and the end of the call
Finish(t, res, fault, events) ==
  [task EXCEPT ![t].pc = "done", ![t].res = res, ![t].fault = fault,
               ![t].logged = task[t].logged \cup events,
               ![t].iv = <<>>, ![t].ck = NoKey, ![t].env = Absent]

(***************************************************************************)
(* The page as its scripts leave it once loaded: window.moduleSandbox,      *)
(* window.gpxParser (with its iframe appended and init() called) and        *)
(* window.threatMonitor are constructed, nothing has been called yet.       *)
(***************************************************************************)
ModuleIds == {"map", "chart"}

\* the iframe of GPXParser._createSandbox in document.body
GpxFrame == [frame |-> "gpx", call |-> 0]

\* no entry in a Map, no message handled, no call made
None == [kind |-> "none"]

\* new ThreatMonitor(): no event, no warning shown, no block registered
\* new ThreatMonitor(): no event, no warning shown, no block registered, no
\* unblock timer; paths keeps what _checkThreatLevel found on each event
\* XSSProtection before any call: the last call of sanitize, and what the
\* last call of safeInsertHtml was given and left in its element
NoCalls == [sanitize |-> None, inserted |-> None]

NewMonitor ==
  [eventHistory |-> <<>>, warningShown |-> FALSE, banner |-> FALSE,
   blockedIps |-> None,
   timers |-> {}, paths |-> <<>>]

\* the sandboxes and the parser are followed in steps of half the creation
\* timeout, the monitor in steps of half its window; calls are made up to the
\* horizon and the timers they start are followed to their end
PageStep == 1500
PageHorizon == 3000
ThreatStep == 30000
ThreatHorizon == 120000

PageLoaded ==
  /\ now = 0
  /\ dom = <<GpxFrame>>
  /\ creations = <<>>
  /\ pendingMessages = [m \in ModuleIds |-> None]
  /\ dispatched = {}
  /\ parses = <<>>
  /\ pendingResolvers = {}
  /\ monitor = NewMonitor
  /\ sink = <<>>
  /\ event = None
  /\ xss = NoCalls

(***************************************************************************)
(* The states the program starts in: what earlier sessions and sync left    *)
(* in localStorage, and the constructor having run _initKey() up to its     *)
(* first await.                                                             *)
(***************************************************************************)
\* the key blob and the entry secure_shoes found at start
InitialStorages ==
  {\* a fresh profile
   <<Absent, Absent>>,
   \* a profile this device wrote earlier
   <<JwkEntry(DeriveKey(DeviceFingerprint)),
     ForeignEnvelope(DeriveKey(DeviceFingerprint), 201, NumV(7))>>,
   \* sync overwrote the key blob with another device's key
   <<JwkEntry(DeriveKey(ForeignFingerprint)),
     ForeignEnvelope(DeriveKey(DeviceFingerprint), 201, NumV(7))>>,
   \* sync brought an envelope of another device
   <<Absent, ForeignEnvelope(DeriveKey(ForeignFingerprint), 202, NumV(7))>>,
   \* a key blob that is no JSON
   <<TextEntry(<<123>>), Absent>>,
   \* an entry that is no JSON
   <<Absent, TextEntry(<<123>>)>>}

Init ==
  /\ \E cfg \in InitialStorages, crypto \in BOOLEAN :
       /\ crypto \/ cfg = <<Absent, Absent>>
       /\ hasCrypto = crypto
       /\ storage =
            [n \in StorageNames |->
               IF n = KeyBlobName THEN cfg[1]
               ELSE IF n = SecureName("shoes") THEN cfg[2]
               ELSE IF n = FallbackName("shoes")
                    THEN TextEntry(FallbackEncode(NumV(7)))
               ELSE IF n = OtherName THEN TextEntry(<<100>>)
               ELSE Absent]
       /\ initBlob = cfg[1]
       /\ initPc = IF cfg[1] = Absent THEN "derive" ELSE "import"
  /\ encryptionKey = NoKey
  /\ task = [t \in Tasks |-> IdleTask]
  /\ rng = 0
  /\ written = <<>>
  /\ lastSet = [k \in LogicalKeys \cup {TestKey} |-> NoValue]
  /\ cleared = NotCleared
  /\ wiped = FALSE
  /\ fbLast = [k \in LogicalKeys |-> NoValue]
  /\ fbResult = [has |-> FALSE, key |-> "", res |-> Pending]
  /\ securityStatus = NotChecked
  /\ PageLoaded

(***************************************************************************)
(* The constructor's _initKey().  A platform call (crypto.subtle.*,         *)
(* localStorage.setItem) may throw at any time; without crypto.subtle       *)
(* every one of them does.                                                  *)
(***************************************************************************)
\* this.encryptionKey = await this._importKey(storedKey)
CtorImported ==
  /\ initPc = "import"
  /\ \/ /\ hasCrypto
        /\ initBlob.kind = "jwk"
        /\ encryptionKey' = initBlob.k
        /\ initPc' = "ready"
     \/ /\ initPc' = "failed"
        /\ UNCHANGED encryptionKey
  /\ initBlob' = Absent
  /\ cleared' = NotCleared
  /\ UNCHANGED <<storage, task, rng, written, lastSet, wiped, fbLast,
                 fbResult, hasCrypto, securityStatus>>
  /\ UNCHANGED pageVars

\* this.encryptionKey = await crypto.subtle.deriveKey(...)
CtorDerived ==
  /\ initPc = "derive"
  /\ \/ /\ hasCrypto
        /\ encryptionKey' = DeriveKey(DeviceFingerprint)
        /\ initPc' = "export"
     \/ /\ initPc' = "failed"
        /\ UNCHANGED encryptionKey
  /\ cleared' = NotCleared
  /\ UNCHANGED <<storage, initBlob, task, rng, written, lastSet, wiped,
                 fbLast, fbResult, hasCrypto, securityStatus>>
  /\ UNCHANGED pageVars

\* const jwk = await crypto.subtle.exportKey(...); localStorage.setItem(...)
CtorExported ==
  /\ initPc = "export"
  /\ \/ /\ storage' = [storage EXCEPT ![KeyBlobName] = JwkEntry(encryptionKey)]
        /\ initPc' = "ready"
     \/ /\ initPc' = "failed"
        /\ UNCHANGED storage
  /\ cleared' = NotCleared
  /\ UNCHANGED <<encryptionKey, initBlob, task, rng, written, lastSet, wiped,
                 fbLast, fbResult, hasCrypto, securityStatus>>
  /\ UNCHANGED pageVars

(***************************************************************************)
(* setItem and getItem.                                                     *)
(***************************************************************************)
\* a new call takes the lowest free slot
FreeSlot(t) == ~InFlight(t) /\ \A u \in Tasks : u < t => InFlight(u)

\* setItem calls that have not drawn their nonce yet
Undrawn == {u \in Tasks : task[u].op = "set" /\ task[u].pc = "awaitKey"}

\* a call of setItem(key, value): it runs up to await this.keyPromise
CallSetItem(t, key, value) ==
  /\ FreeSlot(t)
  /\ rng + Cardinality(Undrawn) < MaxDraws
  /\ LET racing ==
           {u \in Tasks \ {t} :
              InFlight(u) /\ task[u].op = "set" /\ task[u].key = key}
     IN task' =
          [u \in Tasks |->
             IF u = t
             THEN [IdleTask EXCEPT !.op = "set", !.pc = "awaitKey",
                                   !.key = key, !.value = value,
                                   !.overlap = (racing # {})]
             ELSE IF u \in racing THEN [task[u] EXCEPT !.overlap = TRUE]
             ELSE task[u]]
  /\ cleared' = NotCleared
  /\ UNCHANGED <<storage, encryptionKey, initPc, initBlob, rng, written,
                 lastSet, wiped, fbLast, fbResult, hasCrypto, securityStatus>>
  /\ UNCHANGED pageVars

\* a call of getItem(key): it runs up to await this.keyPromise
CallGetItem(t, key) ==
  /\ FreeSlot(t)
  /\ task' = [task EXCEPT ![t] =
                [IdleTask EXCEPT !.op = "get", !.pc = "awaitKey", !.key = key]]
  /\ cleared' = NotCleared
  /\ UNCHANGED <<storage, encryptionKey, initPc, initBlob, rng, written,
                 lastSet, wiped, fbLast, fbResult, hasCrypto, securityStatus>>
  /\ UNCHANGED pageVars

\* a call that does not wait for this.keyPromise
AwaitKeyPromiseSkipped(t) == task[t].pc = "awaitKey"

\* await this.keyPromise: the call resumes once the promise is settled
AwaitKeyPromise(t) == task[t].pc = "awaitKey" /\ KeyState # "DERIVING"

\* what the call finds as it passes the await: whether an envelope is stored
\* under its key, whether clear() emptied the store, and the value that was
\* stored last under its key with the key now in force
Passing(t) ==
  [task EXCEPT ![t].absent = (storage[SecureName(task[t].key)] = Absent),
               ![t].wiped = wiped,
               ![t].expect =
                 IF lastSet[task[t].key].ck = encryptionKey
                 THEN lastSet[task[t].key] ELSE NoValue]

\* the promise was rejected: the await throws outside every try block
KeyPromiseRejected(t) ==
  /\ AwaitKeyPromise(t)
  /\ KeyState # "READY"
  /\ task' = [Passing(t) EXCEPT ![t].pc = "done",
                ![t].res = Rejected("SECURE_STORAGE_INIT_FAILED")]
  /\ cleared' = NotCleared
  /\ UNCHANGED <<storage, encryptionKey, initPc, initBlob, rng, written,
                 lastSet, wiped, fbLast, fbResult, hasCrypto, securityStatus>>
  /\ UNCHANGED pageVars

\* setItem from the nonce to the call of crypto.subtle.encrypt
SetItemEncrypt(t) ==
  /\ AwaitKeyPromise(t)
  /\ KeyState # "FAILED"
  /\ task[t].op = "set"
  /\ rng' = rng + 1
  /\ task' = [task EXCEPT ![t].pc = "encrypt", ![t].iv = RandomIv(rng + 1),
                          ![t].ck = encryptionKey, ![t].touched = TRUE]
  /\ cleared' = NotCleared
  /\ UNCHANGED <<storage, encryptionKey, initPc, initBlob, written, lastSet,
                 wiped, fbLast, fbResult, hasCrypto, securityStatus>>
  /\ UNCHANGED pageVars

\* a catch block that logs and swallows the error, as FallbackStorage's does
SetItemSwallowed(t, fault) ==
  /\ task' = Finish(t, Resolved(NullV), fault, {"ENCRYPTION_FAILED"})
  /\ UNCHANGED <<storage, written, lastSet, wiped>>

\* the catch block of setItem
SetItemFailed(t, fault) ==
  /\ task' = Finish(t, Rejected("DATA_ENCRYPTION_FAILED"), fault,
                    {"ENCRYPTION_FAILED"})
  /\ UNCHANGED <<storage, written, lastSet, wiped>>

\* setItem after await crypto.subtle.encrypt: the envelope is stored,
\* unless the encryption or localStorage.setItem threw
SetItemStore(t) ==
  /\ task[t].pc = "encrypt"
  /\ \/ /\ task[t].ck # NoKey
        /\ LET encrypted ==
                 Encrypt(task[t].ck, task[t].iv,
                         Utf8Encode(JsonStringify(task[t].value)))
               stored == StoredEnvelope(task[t].iv, encrypted)
           IN /\ storage' = [storage EXCEPT ![SecureName(task[t].key)] = stored]
              /\ written' = Append(written, [name |-> SecureName(task[t].key),
                                                env |-> stored])
        /\ lastSet' = [lastSet EXCEPT ![task[t].key] =
                         Some(task[t].value, task[t].overlap, task[t].ck)]
        /\ wiped' = FALSE
        /\ task' = [Finish(t, Resolved(NullV), "none", {})
                      EXCEPT ![t].rotating =
                        \E u \in Tasks : task[u].pc = "derive"]
     \/ \E fault \in {"encrypt", "write"} : SetItemFailed(t, fault)
  /\ cleared' = NotCleared
  /\ UNCHANGED <<encryptionKey, initPc, initBlob, rng, fbLast, fbResult,
                 hasCrypto, securityStatus>>
  /\ UNCHANGED pageVars

\* a getItem that throws on a missing entry
NotStoredThrows == Rejected("NOT_FOUND")

\* if (!stored) return null
NotStored == Resolved(NullV)

\* getItem from the read of the entry to the call of crypto.subtle.decrypt
GetItemRead(t) ==
  /\ AwaitKeyPromise(t)
  /\ KeyState # "FAILED"
  /\ task[t].op = "get"
  /\ LET stored == storage[SecureName(task[t].key)]
         seen == [Passing(t) EXCEPT ![t].touched = TRUE]
     IN \/ /\ Falsy(stored)
           /\ task' = [seen EXCEPT ![t].pc = "done", ![t].res = NotStored]
        \/ /\ ~Falsy(stored)
           /\ ReadThrows(stored)
           /\ task' = [seen EXCEPT ![t].pc = "done", ![t].res = Resolved(NullV),
                         ![t].logged = task[t].logged \cup {"DECRYPTION_FAILED"}]
        \/ /\ ~Falsy(stored)
           /\ ~ReadThrows(stored)
           /\ task[t].decrypts < MaxAttempts
           /\ task' = [seen EXCEPT ![t].pc = "decrypt", ![t].env = stored,
                                   ![t].ck = encryptionKey,
                                   ![t].decrypts = task[t].decrypts + 1]
  /\ cleared' = NotCleared
  /\ UNCHANGED <<storage, encryptionKey, initPc, initBlob, rng, written,
                 lastSet, wiped, fbLast, fbResult, hasCrypto, securityStatus>>
  /\ UNCHANGED pageVars

\* getItem after await crypto.subtle.decrypt
GetItemDecrypted(t) ==
  /\ task[t].pc = "decrypt"
  /\ LET out == DecryptEnvelope(task[t].ck, task[t].env) IN
     \/ /\ out.ok
        /\ DecodePlain(out.plain).ok
        /\ task' = Finish(t, Resolved(DecodePlain(out.plain).v), "none", {})
        /\ UNCHANGED storage
     \/ /\ out.ok
        /\ ~DecodePlain(out.plain).ok
        /\ task' = Finish(t, Resolved(NullV), "none", {"DECRYPTION_FAILED"})
        /\ UNCHANGED storage
     \* OperationError: the key blob is removed and _initKey() runs up to
     \* its first await; it finds no stored key
     \/ /\ ~out.ok
        /\ storage' = [storage EXCEPT ![KeyBlobName] = Absent]
        /\ task' = [task EXCEPT ![t].pc = "derive",
                                ![t].derives = task[t].derives + 1]
  /\ cleared' = NotCleared
  /\ UNCHANGED <<encryptionKey, initPc, initBlob, rng, written, lastSet,
                 wiped, fbLast, fbResult, hasCrypto, securityStatus>>
  /\ UNCHANGED pageVars

\* the catch block of _initKey(), run inside the catch block of getItem: the
\* error it throws leaves getItem
RetryInitFailed(t) ==
  task' = Finish(t, Rejected("SECURE_STORAGE_INIT_FAILED"), "init",
                 {"KEY_INIT_FAILED"})

\* _initKey() called by getItem, after await crypto.subtle.deriveKey
RetryDerived(t) ==
  /\ task[t].pc = "derive"
  /\ \/ /\ encryptionKey' = DeriveKey(DeviceFingerprint)
        /\ task' = [task EXCEPT ![t].pc = "export"]
     \/ /\ RetryInitFailed(t)
        /\ UNCHANGED encryptionKey
  /\ cleared' = NotCleared
  /\ UNCHANGED <<storage, initPc, initBlob, rng, written, lastSet, wiped,
                 fbLast, fbResult, hasCrypto, securityStatus>>
  /\ UNCHANGED pageVars

\* _initKey() called by getItem, after await crypto.subtle.exportKey: the
\* blob is stored, then return this.getItem(key) runs up to its await
RetryExported(t) ==
  /\ task[t].pc = "export"
  /\ \/ /\ storage' = [storage EXCEPT ![KeyBlobName] =
                         JwkEntry(DeriveKey(DeviceFingerprint))]
        /\ task' = [task EXCEPT ![t].pc = "awaitKey"]
     \/ /\ RetryInitFailed(t)
        /\ UNCHANGED storage
  /\ cleared' = NotCleared
  /\ UNCHANGED <<encryptionKey, initPc, initBlob, rng, written, lastSet,
                 wiped, fbLast, fbResult, hasCrypto, securityStatus>>
  /\ UNCHANGED pageVars

\* clear()
Clear ==
  /\ storage' = ClearedStorage(storage)
  /\ cleared' = [on |-> TRUE, before |-> storage]
  /\ wiped' = TRUE
  /\ lastSet' = [k \in LogicalKeys \cup {TestKey} |-> NoValue]
  /\ UNCHANGED <<encryptionKey, initPc, initBlob, task, rng, written, fbLast,
                 fbResult, hasCrypto, securityStatus>>
  /\ UNCHANGED pageVars

(***************************************************************************)
(* FallbackStorage, the store of a platform without crypto.subtle: its      *)
(* methods hold no await, each is one step.                                 *)
(***************************************************************************)
FallbackSetItem(key, value) ==
  /\ ~hasCrypto
  /\ \/ /\ storage' = [storage EXCEPT ![FallbackName(key)] =
                         TextEntry(FallbackEncode(value))]
        /\ fbLast' = [fbLast EXCEPT ![key] = Some(value, FALSE, NoKey)]
     \* localStorage.setItem threw: logged, nothing stored
     \/ UNCHANGED <<storage, fbLast>>
  /\ fbResult' = [has |-> FALSE, key |-> "", res |-> Pending]
  /\ cleared' = NotCleared
  /\ UNCHANGED <<encryptionKey, initPc, initBlob, task, rng, written,
                 lastSet, wiped, hasCrypto, securityStatus>>
  /\ UNCHANGED pageVars

FallbackGetItem(key) ==
  /\ ~hasCrypto
  /\ LET obfuscated == storage[FallbackName(key)] IN
     \/ /\ Falsy(obfuscated)
        /\ fbResult' = [has |-> TRUE, key |-> key, res |-> Resolved(NullV)]
     \/ /\ ~Falsy(obfuscated)
        /\ fbResult' =
             [has |-> TRUE, key |-> key,
              res |-> Resolved(FallbackDecode(obfuscated.chars).v)]
  /\ cleared' = NotCleared
  /\ UNCHANGED <<storage, encryptionKey, initPc, initBlob, task, rng,
                 written, lastSet, wiped, fbLast, hasCrypto, securityStatus>>
  /\ UNCHANGED pageVars

StoreValues == {NumV(42), StrV(<<34, 233>>)}

\* the keys the application stores under; it reads "activities" as well
StoreKeys == {"shoes"}

Next ==
  \/ CtorImported
  \/ CtorDerived
  \/ CtorExported
  \/ \E t \in Tasks, k \in StoreKeys, v \in StoreValues : CallSetItem(t, k, v)
  \/ \E t \in Tasks, k \in LogicalKeys : CallGetItem(t, k)
  \/ \E t \in Tasks : KeyPromiseRejected(t)
  \/ \E t \in Tasks : SetItemEncrypt(t)
  \/ \E t \in Tasks : SetItemStore(t)
  \/ \E t \in Tasks : GetItemRead(t)
  \/ \E t \in Tasks : GetItemDecrypted(t)
  \/ \E t \in Tasks : RetryDerived(t)
  \/ \E t \in Tasks : RetryExported(t)
  \/ \E k \in StoreKeys, v \in StoreValues : FallbackSetItem(k, v)
  \/ \E k \in LogicalKeys : FallbackGetItem(k)
  \/ Clear

Spec == Init /\ [][Next]_vars

(***************************************************************************)
(* Values that travel in messages and in event details: strings, numbers    *)
(* and objects.  An object is a function from its keys, which are strings   *)
(* (sequences of code units), to values.                                    *)
(***************************************************************************)
ObjV(fields) == [t |-> "obj", o |-> fields]

\* String.prototype.toLowerCase on the ASCII letters
ToLowerCase(s) ==
  [i \in 1..Len(s) |-> IF s[i] >= 65 /\ s[i] <= 90 THEN s[i] + 32 ELSE s[i]]

\* String.prototype.endsWith
EndsWith(s, suffix) ==
  /\ Len(s) >= Len(suffix)
  /\ SubSeq(s, Len(s) - Len(suffix) + 1, Len(s)) = suffix

\* the keys used below, spelled out: "password", "token", "cookie", "route",
\* "eph", "Token", "target", "note", "origin", "data"
KeyPassword == <<112, 97, 115, 115, 119, 111, 114, 100>>
KeyToken == <<116, 111, 107, 101, 110>>
KeyCookie == <<99, 111, 111, 107, 105, 101>>
KeyRoute == <<114, 111, 117, 116, 101>>
KeyEph == <<101, 112, 104>>
KeyTokenCapital == <<84, 111, 107, 101, 110>>
KeyTarget == <<116, 97, 114, 103, 101, 116>>
KeyNote == <<110, 111, 116, 101>>
KeyOrigin == <<111, 114, 105, 103, 105, 110>>
KeyData == <<100, 97, 116, 97>>

\* "..."
Ellipsis == <<46, 46, 46>>

(***************************************************************************)
(* ThreatMonitor: pure parts.                                               *)
(***************************************************************************)
\* this.suspiciousThreshold, this.blockThreshold, this.blockDuration
SuspiciousThreshold == 3
BlockThreshold == 5
BlockDuration == 300000
\* e => now - e.timestamp < 60000
WindowLength == 60000
\* if (this.eventHistory.length > 100)
HistoryLimit == 100
\* value.length > 200
DetailLimit == 200

\* _calculateRiskLevel: riskLevels[type] || 1
CalculateRiskLevel(type) ==
  CASE type = "CROSS_ORIGIN_MESSAGE" -> 2
    [] type = "DEVELOPER_TOOLS_ATTEMPT" -> 1
    [] type = "RAPID_KEYSTROKES" -> 3
    [] type = "POSSIBLE_XSS_SCAN" -> 5
    [] type = "MODULE_LOAD_FAILED" -> 2
    [] type = "INVALID_GPX" -> 1
    [] type = "TRANSLATION_FAILED" -> 1
    [] OTHER -> 1

\* _sanitizeEventData: the fields of an object other than password, token
\* and cookie, long strings cut; anything but an object is returned as is
SanitizeEventData(data) ==
  IF data.t # "obj" THEN data
  ELSE LET kept ==
             {k \in DOMAIN data.o :
                ToLowerCase(k) \notin {KeyPassword, KeyToken, KeyCookie}}
       IN ObjV([k \in kept |->
                  IF data.o[k].t = "str"
                  THEN (IF Len(data.o[k].s) > DetailLimit
                        THEN StrV(SubSeq(data.o[k].s, 1, DetailLimit) \o Ellipsis)
                        ELSE data.o[k])
                  ELSE data.o[k]])

RECURSIVE SumRisk(_)
SumRisk(events) ==
  IF Len(events) = 0 THEN 0
  ELSE Head(events).riskLevel + SumRisk(Tail(events))

\* a variant that counts the whole history
RecentEventsUnwindowed(history, t) == history

\* this.eventHistory.filter(e => now - e.timestamp < 60000)
RecentEvents(history, t) ==
  SelectSeq(history, LAMBDA e : t - e.timestamp < WindowLength)

\* a variant that drops the event just pushed when the history is full
PushEventKeepsOldest(history, t, type, details) ==
  IF Len(history) >= HistoryLimit THEN history
  ELSE Append(history,
              [timestamp |-> t, type |-> type,
               details |-> SanitizeEventData(details),
               riskLevel |-> CalculateRiskLevel(type)])

\* recordEvent up to this.eventHistory.shift()
PushEvent(history, t, type, details) ==
  LET pushed == Append(history,
                       [timestamp |-> t, type |-> type,
                        details |-> SanitizeEventData(details),
                        riskLevel |-> CalculateRiskLevel(type)])
  IN IF Len(pushed) > HistoryLimit THEN Tail(pushed) ELSE pushed

\* a variant that blocks only above the threshold
CheckThreatLevelStrict(history, t) ==
  LET riskScore == SumRisk(RecentEvents(history, t)) IN
  [score |-> riskScore,
   warning |-> riskScore >= SuspiciousThreshold /\ riskScore <= BlockThreshold,
   block |-> riskScore > BlockThreshold]

\* _checkThreatLevel: the score, and which of _showWarning and _blockAccess
\* it calls
CheckThreatLevel(history, t) ==
  LET riskScore == SumRisk(RecentEvents(history, t)) IN
  [score |-> riskScore,
   warning |-> riskScore >= SuspiciousThreshold /\ riskScore < BlockThreshold,
   block |-> riskScore >= BlockThreshold]

(***************************************************************************)
(* XSSProtection.sanitize.                                                  *)
(***************************************************************************)
\* str.replace(/c/g, rep)
RECURSIVE ReplaceAll(_, _, _)
ReplaceAll(str, c, rep) ==
  IF \A i \in 1..Len(str) : str[i] # c THEN str
  ELSE IF Len(str) = 1 THEN rep
  ELSE LET half == Len(str) \div 2 IN
       ReplaceAll(SubSeq(str, 1, half), c, rep)
         \o ReplaceAll(SubSeq(str, half + 1, Len(str)), c, rep)

\* the replacement strings, spelled out: "&amp;", "<", ">", "&quot;",
\* "&#039;", "&#x2F;", "&#x5C;"
EntityAmp == <<38, 97, 109, 112, 59>>
EntityLt == <<60>>
EntityGt == <<62>>
EntityQuot == <<38, 113, 117, 111, 116, 59>>
EntityApos == <<38, 35, 48, 51, 57, 59>>
EntitySlash == <<38, 35, 120, 50, 70, 59>>
EntityBackslash == <<38, 35, 120, 53, 67, 59>>

\* the chain of replace calls on a string
SanitizeText(str) ==
  ReplaceAll(
    ReplaceAll(
      ReplaceAll(
        ReplaceAll(
          ReplaceAll(
            ReplaceAll(
              ReplaceAll(str, 38, EntityAmp),
              60, EntityLt),
            62, EntityGt),
          34, EntityQuot),
        39, EntityApos),
      47, EntitySlash),
    92, EntityBackslash)

\* sanitize: if (typeof str !== 'string') return str
Sanitize(v) == IF v.t = "str" THEN StrV(SanitizeText(v.s)) ELSE v

(***************************************************************************)
(* The HTML that innerHTML parses and serializes, as far as the markup      *)
(* handed to safeInsertHtml uses it: text, character references, start      *)
(* tags with attributes, end tags.  End tags are taken to match.            *)
(***************************************************************************)
IsLetter(c) == c \in 65..90 \/ c \in 97..122

\* the character references, longest first: &amp; &lt; &gt; &quot; &#039;
\* &#x2F; &#x5C;
CharRefs ==
  <<[ref |-> EntityAmp, char |-> 38],
    [ref |-> <<38, 108, 116, 59>>, char |-> 60],
    [ref |-> <<38, 103, 116, 59>>, char |-> 62],
    [ref |-> EntityQuot, char |-> 34],
    [ref |-> EntityApos, char |-> 39],
    [ref |-> EntitySlash, char |-> 47],
    [ref |-> EntityBackslash, char |-> 92]>>

\* does ref occur in str at position i?
OccursAt(str, i, ref) ==
  /\ i + Len(ref) - 1 <= Len(str)
  /\ SubSeq(str, i, i + Len(ref) - 1) = ref

\* text with its character references replaced by their characters
RECURSIVE DecodeRefs(_, _)
DecodeRefs(str, i) ==
  IF i > Len(str) THEN <<>>
  ELSE LET hits == {r \in 1..Len(CharRefs) : OccursAt(str, i, CharRefs[r].ref)}
       IN IF hits = {} THEN <<str[i]>> \o DecodeRefs(str, i + 1)
          ELSE LET r == CHOOSE h \in hits : TRUE IN
               <<CharRefs[r].char>> \o DecodeRefs(str, i + Len(CharRefs[r].ref))

\* the first position from i on at which test holds, or Len(str) + 1
FirstFrom(str, i, test(_)) ==
  IF \E j \in i..Len(str) : test(j)
  THEN CHOOSE j \in i..Len(str) : test(j) /\ \A k \in i..(j - 1) : ~test(k)
  ELSE Len(str) + 1

\* the attributes of a start tag from position i on: name, name=value or
\* name="value", separated by spaces
RECURSIVE ParseAttributes(_, _)
ParseAttributes(str, i) ==
  IF i > Len(str) THEN <<>>
  ELSE IF str[i] = 32 THEN ParseAttributes(str, i + 1)
  ELSE LET nameEnd == FirstFrom(str, i, LAMBDA j : str[j] \in {32, 61})
           name == ToLowerCase(SubSeq(str, i, nameEnd - 1))
       IN IF nameEnd > Len(str) \/ str[nameEnd] = 32
          THEN <<[name |-> name, value |-> <<>>]>>
                 \o ParseAttributes(str, nameEnd)
          ELSE IF nameEnd < Len(str) /\ str[nameEnd + 1] = 34
          THEN LET close == FirstFrom(str, nameEnd + 2, LAMBDA j : str[j] = 34)
               IN <<[name |-> name,
                     value |-> DecodeRefs(SubSeq(str, nameEnd + 2, close - 1), 1)]>>
                    \o ParseAttributes(str, close + 1)
          ELSE LET valueEnd == FirstFrom(str, nameEnd + 1, LAMBDA j : str[j] = 32)
               IN <<[name |-> name,
                     value |-> DecodeRefs(SubSeq(str, nameEnd + 1, valueEnd - 1), 1)]>>
                    \o ParseAttributes(str, valueEnd)

\* is position i inside a quoted attribute value of the tag that starts at
\* position from?
InQuotes(str, from, i) ==
  Cardinality({j \in from..i : str[j] = 34}) % 2 = 1

\* does a start tag, or an end tag, start at position i?
StartTagAt(str, i) ==
  i < Len(str) /\ str[i] = 60 /\ IsLetter(str[i + 1])
EndTagAt(str, i) ==
  i + 1 < Len(str) /\ str[i] = 60 /\ str[i + 1] = 47 /\ IsLetter(str[i + 2])

\* the tokens of markup from position i on.  A "<" that starts no tag is
\* text; a tag that is not closed by ">" is dropped with what follows it.
RECURSIVE Tokenize(_, _)
Tokenize(str, i) ==
  IF i > Len(str) THEN <<>>
  ELSE IF StartTagAt(str, i)
  THEN LET tagEnd == FirstFrom(str, i + 1,
                               LAMBDA j : str[j] = 62 /\ ~InQuotes(str, i, j))
           nameEnd == FirstFrom(str, i + 1, LAMBDA j : str[j] \in {32, 62})
       IN IF tagEnd > Len(str) THEN <<>>
          ELSE <<[k |-> "start",
                  tag |-> ToLowerCase(SubSeq(str, i + 1, nameEnd - 1)),
                  attributes |->
                    ParseAttributes(SubSeq(str, nameEnd, tagEnd - 1), 1)]>>
                 \o Tokenize(str, tagEnd + 1)
  ELSE IF EndTagAt(str, i)
  THEN LET tagEnd == FirstFrom(str, i + 2, LAMBDA j : str[j] = 62)
       IN IF tagEnd > Len(str) THEN <<>>
          ELSE <<[k |-> "end",
                  tag |-> ToLowerCase(SubSeq(str, i + 2, tagEnd - 1))]>>
                 \o Tokenize(str, tagEnd + 1)
  ELSE LET textEnd ==
             FirstFrom(str, i + 1,
                       LAMBDA j : StartTagAt(str, j) \/ EndTagAt(str, j))
       IN <<[k |-> "text", text |-> DecodeRefs(SubSeq(str, i, textEnd - 1), 1)]>>
            \o Tokenize(str, textEnd)

\* the nodes of a document: text, and elements with attributes and children
TextNode(text) == [n |-> "text", text |-> text]
Element(tag, attributes, children) ==
  [n |-> "element", tag |-> tag, attributes |-> attributes,
   children |-> children]

\* the elements that have no content: "br", "img"
VoidTags == {<<98, 114>>, <<105, 109, 103>>}

\* the nodes built from the tokens from position i on up to the end tag of
\* the element they are in, and the position after it
RECURSIVE BuildNodes(_, _)
BuildNodes(tokens, i) ==
  IF i > Len(tokens) THEN [nodes |-> <<>>, next |-> i]
  ELSE IF tokens[i].k = "end" THEN [nodes |-> <<>>, next |-> i + 1]
  ELSE IF tokens[i].k = "text"
  THEN LET rest == BuildNodes(tokens, i + 1) IN
       [nodes |-> <<TextNode(tokens[i].text)>> \o rest.nodes, next |-> rest.next]
  ELSE IF tokens[i].tag \in VoidTags
  THEN LET rest == BuildNodes(tokens, i + 1) IN
       [nodes |-> <<Element(tokens[i].tag, tokens[i].attributes, <<>>)>>
                    \o rest.nodes,
        next |-> rest.next]
  ELSE LET inner == BuildNodes(tokens, i + 1)
           rest == BuildNodes(tokens, inner.next)
       IN [nodes |-> <<Element(tokens[i].tag, tokens[i].attributes, inner.nodes)>>
                       \o rest.nodes,
           next |-> rest.next]

\* the children of an element whose innerHTML is set: an end tag without a
\* start tag is ignored
RECURSIVE ParseFrom(_, _)
ParseFrom(tokens, i) ==
  IF i > Len(tokens) THEN <<>>
  ELSE LET built == BuildNodes(tokens, i) IN
       built.nodes \o ParseFrom(tokens, built.next)

\* element.innerHTML = html
SetInnerHtml(html) == ParseFrom(Tokenize(html, 1), 1)

\* the serialization of text and of an attribute value
EscapeText(text) ==
  ReplaceAll(ReplaceAll(ReplaceAll(text, 38, EntityAmp),
                        60, <<38, 108, 116, 59>>),
             62, <<38, 103, 116, 59>>)
EscapeValue(value) ==
  ReplaceAll(ReplaceAll(value, 38, EntityAmp), 34, EntityQuot)

RECURSIVE SerializeAttributes(_)
SerializeAttributes(attributes) ==
  IF Len(attributes) = 0 THEN <<>>
  ELSE <<32>> \o Head(attributes).name \o <<61, 34>>
         \o EscapeValue(Head(attributes).value) \o <<34>>
         \o SerializeAttributes(Tail(attributes))

\* node.innerHTML: the serialization of the children of a node
RECURSIVE GetInnerHtml(_)
GetInnerHtml(nodes) ==
  IF Len(nodes) = 0 THEN <<>>
  ELSE LET node == Head(nodes) IN
       (IF node.n = "text" THEN EscapeText(node.text)
        ELSE <<60>> \o node.tag \o SerializeAttributes(node.attributes) \o <<62>>
               \o (IF node.tag \in VoidTags THEN <<>>
                   ELSE GetInnerHtml(node.children) \o <<60, 47>> \o node.tag
                          \o <<62>>))
         \o GetInnerHtml(Tail(nodes))

(***************************************************************************)
(* XSSProtection.safeInsertHtml.                                            *)
(***************************************************************************)
\* 'b', 'strong', 'i', 'em', 'br', 'span', 'small', 'sup', 'sub'
AllowedTags ==
  {<<98>>,
   <<115, 116, 114, 111, 110, 103>>,
   <<105>>,
   <<101, 109>>,
   <<98, 114>>,
   <<115, 112, 97, 110>>,
   <<115, 109, 97, 108, 108>>,
   <<115, 117, 112>>,
   <<115, 117, 98>>}

\* 'class', 'style'
AllowedAttributes == {<<99, 108, 97, 115, 115>>, <<115, 116, 121, 108, 101>>}

\* what the forEach appends for one child of tempDiv: a copy of a text node,
\* for an element of an allowed tag a new element with its class and style
\* attributes sanitized and with the node's innerHTML, nothing otherwise
SafeNodeOf(node) ==
  IF node.n = "text" THEN <<TextNode(node.text)>>
  ELSE IF node.tag \in AllowedTags
  THEN <<Element(node.tag,
                 [a \in 1..Len(SelectSeq(node.attributes,
                                         LAMBDA at : at.name \in AllowedAttributes)) |->
                    LET attr == SelectSeq(node.attributes,
                                          LAMBDA at : at.name \in AllowedAttributes)[a]
                    IN [name |-> attr.name, value |-> SanitizeText(attr.value)]],
                 SetInnerHtml(GetInnerHtml(node.children)))>>
  ELSE <<>>

RECURSIVE SafeNodes(_)
SafeNodes(nodes) ==
  IF Len(nodes) = 0 THEN <<>>
  ELSE SafeNodeOf(Head(nodes)) \o SafeNodes(Tail(nodes))

\* safeInsertHtml(element, html): the children of element afterwards
SafeInsertHtml(html) == SafeNodes(SetInnerHtml(SanitizeText(html)))

\* the markup handed to safeInsertHtml:
\*   hi
\*   <b>hi</b>
\*   <img src=x onerror=alert(1)>
\*   <b><img src=x onerror=alert(1)></b>
\*   <span class="c d" onclick="x">t</span>
\*   <div>t</div><i>u</i>
\*   a<br>b
\*   <em><a href=x>t</a></em>
HtmlFragments ==
  {<<104, 105>>,
   <<60, 98, 62, 104, 105, 60, 47, 98, 62>>,
   <<60, 105, 109, 103, 32, 115, 114, 99, 61, 120, 32, 111, 110, 101, 114, 114, 111, 114, 61, 97, 108, 101, 114, 116, 40, 49, 41, 62>>,
   <<60, 98, 62, 60, 105, 109, 103, 32, 115, 114, 99, 61, 120, 32, 111, 110, 101, 114, 114, 111, 114, 61, 97, 108, 101, 114, 116, 40, 49, 41, 62, 60, 47, 98, 62>>,
   <<60, 115, 112, 97, 110, 32, 99, 108, 97, 115, 115, 61, 34, 99, 32, 100, 34, 32, 111, 110, 99, 108, 105, 99, 107, 61, 34, 120, 34, 62, 116, 60, 47, 115, 112, 97, 110, 62>>,
   <<60, 100, 105, 118, 62, 116, 60, 47, 100, 105, 118, 62, 60, 105, 62, 117, 60, 47, 105, 62>>,
   <<97, 60, 98, 114, 62, 98>>,
   <<60, 101, 109, 62, 60, 97, 32, 104, 114, 101, 102, 61, 120, 62, 116, 60, 47, 97, 62, 60, 47, 101, 109, 62>>}

CallSafeInsertHtml(html) ==
  /\ xss' = [xss EXCEPT !.inserted =
                [html |-> html, children |-> SafeInsertHtml(html)]]
  /\ UNCHANGED <<now, dom, creations, pendingMessages, dispatched, parses,
                 pendingResolvers, monitor, sink, event>>
  /\ UNCHANGED storeVars

(***************************************************************************)
(* SecurityCore.logSecurityEvent and ThreatMonitor.recordEvent.             *)
(***************************************************************************)
\* _sanitizeDetails: route, eph and password are dropped, numbers rounded to
\* two decimals (the numbers here are integers), strings sanitized
SanitizeDetails(details) ==
  LET kept ==
        {k \in DOMAIN details.o :
           ToLowerCase(k) \notin {KeyRoute, KeyEph, KeyPassword}}
  IN ObjV([k \in kept |-> Sanitize(details.o[k])])

\* logSecurityEvent: what this.logger.log receives
LogSecurityEvent(type, details) ==
  [type |-> type, details |-> SanitizeDetails(details)]

\* the markup of the banner of _showWarning as it is written, its message
\* and the label of its button shortened to a letter each:
\*   <div class="security-warning">
\*   <p⚠ w</p>
\*   <button id="dismissWarning">x</button>
\*   </div>
WarningMarkup ==
  <<60, 100, 105, 118, 32, 99, 108, 97, 115, 115, 61, 34, 115, 101, 99, 117, 114, 105, 116, 121, 45, 119, 97, 114, 110, 105, 110, 103, 34, 62, 10, 60, 112, 9888, 32, 119, 60, 47, 112, 62, 10, 60, 98, 117, 116, 116, 111, 110, 32, 105, 100, 61, 34, 100, 105, 115, 109, 105, 115, 115, 87, 97, 114, 110, 105, 110, 103, 34, 62, 120, 60, 47, 98, 117, 116, 116, 111, 110, 62, 10, 60, 47, 100, 105, 118, 62>>

\* document.body.innerHTML: the iframes of the document, "<iframe></iframe>"
\* each
RECURSIVE BodyHtml(_)
BodyHtml(frames) ==
  IF Len(frames) = 0 THEN <<>>
  ELSE <<60, 105, 102, 114, 97, 109, 101, 62, 60, 47, 105, 102, 114, 97, 109, 101, 62>> \o BodyHtml(Tail(frames))

\* does an element with this value of this attribute occur in the nodes,
\* at any depth?
RECURSIVE HasElement(_, _, _)
HasElement(nodes, name, value) ==
  \E i \in 1..Len(nodes) :
    IF nodes[i].n = "text" THEN FALSE
    ELSE \/ \E a \in 1..Len(nodes[i].attributes) :
              nodes[i].attributes[a] = [name |-> name, value |-> value]
         \/ HasElement(nodes[i].children, name, value)

\* _showWarning past its guard: document.getElementById('dismissWarning')
\* after renderSafeContent; the click listener is added only if it finds
\* the button
ShowWarning ==
  HasElement(SafeInsertHtml(WarningMarkup \o BodyHtml(dom)),
             <<105, 100>>, <<100, 105, 115, 109, 105, 115, 115, 87, 97, 114, 110, 105, 110, 103>>)

\* recordEvent(type, details) at time t on the monitor mon: the monitor
\* afterwards, whether document.body was rendered anew (by a warning that
\* was not yet shown, or by a block), and what reached the logger
RecordEvent(mon, t, type, details) ==
  LET history == PushEvent(mon.eventHistory, t, type, details)
      level == CheckThreatLevel(history, t)
      until == t + BlockDuration
  IN [monitor |->
        [eventHistory |-> history,
         warningShown |-> mon.warningShown \/ level.warning,
         banner |-> IF level.block THEN FALSE
                    ELSE IF level.warning /\ ~mon.warningShown THEN ShowWarning
                    ELSE mon.banner,
         blockedIps |-> IF level.block THEN [kind |-> "until", at |-> until]
                        ELSE mon.blockedIps,
         timers |-> IF level.block THEN mon.timers \cup {until}
                    ELSE mon.timers,
         paths |-> Append(mon.paths, level)],
      rendered |-> (level.warning /\ ~mon.warningShown) \/ level.block,
      logged |-> LogSecurityEvent(type, details)]

(***************************************************************************)
(* ModuleSandbox.                                                           *)
(***************************************************************************)
\* createSandbox calls a page is followed through
MaxCreates == 2
\* the delay of the timer createSandbox starts
CreationTimeout == 3000
\* window.location.origin, and origins that differ from it: another site,
\* and the opaque origin of a document without allow-same-origin
\* "https://t.example", "https://e.example", "null"
HostOrigin == <<104, 116, 116, 112, 115, 58, 47, 47, 116, 46, 101, 120, 97, 109, 112, 108, 101>>
EvilOrigin == <<104, 116, 116, 112, 115, 58, 47, 47, 101, 46, 101, 120, 97, 109, 112, 108, 101>>
OpaqueOrigin == <<110, 117, 108, 108>>
ForeignOrigins == {EvilOrigin, OpaqueOrigin}

\* the iframe the c-th createSandbox call created
Frame(c) == [frame |-> "module", call |-> c]

\* sandbox.id of an iframe in the document
FrameId(f) == IF f.frame = "module" THEN creations[f.call].moduleId ELSE ""

\* document.getElementById(`sandbox-${moduleId}`): the first in document order
FramesOf(moduleId) ==
  SelectSeq(dom, LAMBDA f : f.frame = "module" /\ FrameId(f) = moduleId)

\* resolve(sandbox) of the c-th call: a promise is settled once
Settle(cs, c) ==
  IF cs[c].result = None THEN [cs EXCEPT ![c].result = Frame(c)] ELSE cs

\* createSandbox(moduleId, content): the iframe is appended, the entry of
\* the module id is set, the timer is started
CreateSandbox(moduleId) ==
  /\ now <= PageHorizon
  /\ Len(creations) < MaxCreates
  /\ LET c == Len(creations) + 1 IN
     /\ creations' = Append(creations,
                            [moduleId |-> moduleId, at |-> now,
                             result |-> None, timer |-> "armed"])
     /\ dom' = Append(dom, Frame(c))
     /\ pendingMessages' = [pendingMessages EXCEPT ![moduleId] =
                              [kind |-> "entry", call |-> c]]
  /\ event' = None
  /\ UNCHANGED <<now, dispatched, parses, pendingResolvers, monitor, sink, xss>>
  /\ UNCHANGED storeVars

\* a variant of the callback that acts only while the entry of the module
\* id is still the one of its own call
CreationTimerGuarded(c) ==
  /\ c \in 1..Len(creations)
  /\ creations[c].timer = "armed"
  /\ now >= creations[c].at + CreationTimeout
  /\ IF pendingMessages[creations[c].moduleId] = [kind |-> "entry", call |-> c]
     THEN /\ pendingMessages' =
               [pendingMessages EXCEPT ![creations[c].moduleId] = None]
          /\ creations' = [Settle(creations, c) EXCEPT ![c].timer = "fired"]
     ELSE /\ creations' = [creations EXCEPT ![c].timer = "fired"]
          /\ UNCHANGED pendingMessages
  /\ event' = None
  /\ UNCHANGED <<now, dom, dispatched, parses, pendingResolvers, monitor,
                 sink, xss>>
  /\ UNCHANGED storeVars

\* the callback of the timer of the c-th call
CreationTimerFires(c) ==
  /\ c \in 1..Len(creations)
  /\ creations[c].timer = "armed"
  /\ now >= creations[c].at + CreationTimeout
  /\ pendingMessages' = [pendingMessages EXCEPT ![creations[c].moduleId] = None]
  /\ creations' = [Settle(creations, c) EXCEPT ![c].timer = "fired"]
  /\ event' = None
  /\ UNCHANGED <<now, dom, dispatched, parses, pendingResolvers, monitor,
                 sink, xss>>
  /\ UNCHANGED storeVars

\* destroySandbox(moduleId); this.sandboxes is never added to, its delete
\* removes nothing
DestroySandbox(moduleId) ==
  /\ FramesOf(moduleId) # <<>>
  /\ LET sandbox == Head(FramesOf(moduleId)) IN
     dom' = SelectSeq(dom, LAMBDA f : f # sandbox)
  /\ event' = None
  /\ UNCHANGED <<now, creations, pendingMessages, dispatched, parses,
                 pendingResolvers, monitor, sink, xss>>
  /\ UNCHANGED storeVars

\* a variant that sanitizes the first level only
SanitizeSandboxDataShallow(data) ==
  IF data.t = "str" THEN Sanitize(data)
  ELSE IF data.t = "obj"
       THEN ObjV([k \in DOMAIN data.o \ {<<95, 95, 112, 114, 111, 116, 111, 95, 95>>, <<99, 111, 110, 115, 116, 114, 117, 99, 116, 111, 114>>, <<112, 114, 111, 116, 111, 116, 121, 112, 101>>} |->
                    IF data.o[k].t = "str" THEN Sanitize(data.o[k])
                    ELSE data.o[k]])
  ELSE data

\* the keys sanitizeSandboxData skips: "__proto__", "constructor",
\* "prototype"
SkippedKeys ==
  {<<95, 95, 112, 114, 111, 116, 111, 95, 95>>,
   <<99, 111, 110, 115, 116, 114, 117, 99, 116, 111, 114>>,
   <<112, 114, 111, 116, 111, 116, 121, 112, 101>>}

\* Object.entries of an array of up to ten items: its indices as keys
ArrayEntries(items) ==
  [k \in {<<47 + i>> : i \in 1..Len(items)} |-> items[k[1] - 47]]

\* sanitizeSandboxData: a string is sanitized, an object or an array becomes
\* a plain object of its sanitized entries without the skipped keys, anything
\* else is returned as it is
RECURSIVE SanitizeSandboxData(_)
SanitizeSandboxData(data) ==
  IF data.t = "str" THEN Sanitize(data)
  ELSE IF data.t \in {"obj", "arr"}
       THEN LET entries == IF data.t = "obj" THEN data.o
                           ELSE ArrayEntries(data.a)
            IN ObjV([k \in DOMAIN entries \ SkippedKeys |->
                       SanitizeSandboxData(entries[k])])
  ELSE data

\* ModuleSandbox.handleMessage: creations, pendingMessages and dispatched
\* after the event
SandboxHandleMessage(msg) ==
  LET same == [creations |-> creations, pendingMessages |-> pendingMessages,
               dispatched |-> dispatched]
  IN IF msg.origin # HostOrigin THEN same
     ELSE IF msg.type = "SANDBOX_READY"
     THEN LET pending == IF msg.id \in ModuleIds THEN pendingMessages[msg.id]
                         ELSE None
          IN IF pending = None THEN same
             ELSE [creations |->
                     Settle([creations EXCEPT ![pending.call].timer = "cleared"],
                            pending.call),
                   pendingMessages |->
                     [pendingMessages EXCEPT ![msg.id] = None],
                   dispatched |-> dispatched]
     ELSE IF msg.type = "SANDBOX_MESSAGE"
     THEN [same EXCEPT !.dispatched =
             dispatched \cup {[name |-> msg.id, payload |-> msg.data,
                               detail |-> SanitizeSandboxData(msg.data)]}]
     ELSE same

(***************************************************************************)
(* GPXParser.                                                               *)
(***************************************************************************)
\* parse calls a page is followed through
MaxParses == 2
\* 5 * 1024 * 1024
MaxFileSize == 5242880

\* ".gpx"
GpxSuffix == <<46, 103, 112, 120>>

\* "a.gpx"
GpxName == <<97, 46, 103, 112, 120>>

\* the files handed to parse: "a.gpx", "A.GPX", "r.txt" and "gpx", at the
\* size limit and one byte above it, and an "a.gpx" that cannot be read
GpxFiles ==
  [name : {<<97, 46, 103, 112, 120>>, <<65, 46, 71, 80, 88>>,
           <<114, 46, 116, 120, 116>>, <<103, 112, 120>>},
   size : {MaxFileSize, MaxFileSize + 1},
   readable : {TRUE}]
    \cup {[name |-> <<97, 46, 103, 112, 120>>, size |-> 1, readable |-> FALSE]}

\* 'req_' + Math.random().toString(36).substr(2, 9): the n-th draw; draws are
\* taken to be pairwise distinct
RequestIds == <<"req_1", "req_2", "req_3", "req_4">>

\* a variant of the checks that looks at the size first
ValidationErrorSizeFirst(file) ==
  IF file.size > MaxFileSize THEN "FILE_TOO_LARGE"
  ELSE IF ~EndsWith(ToLowerCase(file.name), GpxSuffix)
  THEN "INVALID_FILE_EXTENSION"
  ELSE ""

\* the checks parse makes before it reads: the error it throws, or "" if
\* the file passes
ValidationError(file) ==
  IF ~EndsWith(ToLowerCase(file.name), GpxSuffix) THEN "INVALID_FILE_EXTENSION"
  ELSE IF file.size > MaxFileSize THEN "FILE_TOO_LARGE"
  ELSE ""

\* a call of parse.  It records whether reader.readAsText was called,
\* whether a resolver was registered and whether PARSE_GPX was posted.
ParseCall(file) ==
  [file |-> file, pc |-> "done", requestId |-> "", res |-> Pending,
   read |-> FALSE, registered |-> FALSE, posted |-> FALSE]

\* parse(file) up to await contentPromise
Parse(file) ==
  /\ now <= PageHorizon
  /\ Len(parses) < MaxParses
  /\ parses' =
       Append(parses,
              IF ValidationError(file) # ""
              THEN [ParseCall(file) EXCEPT !.res = Rejected(ValidationError(file))]
              ELSE [ParseCall(file) EXCEPT !.pc = "reading", !.read = TRUE])
  /\ event' = None
  /\ UNCHANGED <<now, dom, creations, pendingMessages, dispatched,
                 pendingResolvers, monitor, sink, xss>>
  /\ UNCHANGED storeVars

\* reader.onload or reader.onerror, and parse from there: the resolver is
\* registered and PARSE_GPX is posted to this.sandbox.contentWindow, which
\* is null once the iframe has left the document
FileRead(p) ==
  /\ p \in 1..Len(parses)
  /\ parses[p].pc = "reading"
  /\ \/ /\ parses[p].file.readable
        /\ pendingResolvers' =
             pendingResolvers \cup {[id |-> RequestIds[p], parse |-> p]}
        /\ \/ /\ \E i \in 1..Len(dom) : dom[i] = GpxFrame
              /\ parses' = [parses EXCEPT ![p].pc = "waiting",
                              ![p].requestId = RequestIds[p],
                              ![p].registered = TRUE, ![p].posted = TRUE]
           \/ /\ \A i \in 1..Len(dom) : dom[i] # GpxFrame
              /\ parses' = [parses EXCEPT ![p].pc = "done",
                              ![p].requestId = RequestIds[p],
                              ![p].registered = TRUE,
                              ![p].res = Rejected("TypeError")]
     \/ /\ ~parses[p].file.readable
        /\ parses' = [parses EXCEPT ![p].pc = "done",
                        ![p].res = Rejected("FILE_READ_ERROR")]
        /\ UNCHANGED pendingResolvers
  /\ event' = None
  /\ UNCHANGED <<now, dom, creations, pendingMessages, dispatched, monitor,
                 sink, xss>>
  /\ UNCHANGED storeVars

\* a variant of the listener that does not look at the id
GpxSettlesAnyId(msg, id) ==
  /\ msg.origin = HostOrigin
  /\ msg.type \in {"GPX_PARSED", "GPX_ERROR"}

\* a variant of the listener that does not look at the origin
GpxSettlesAnyOrigin(msg, id) ==
  /\ msg.type \in {"GPX_PARSED", "GPX_ERROR"}
  /\ msg.id = id

\* does the listener of init() settle the request registered under id on
\* this event?
GpxSettles(msg, id) ==
  /\ msg.origin = HostOrigin
  /\ msg.type \in {"GPX_PARSED", "GPX_ERROR"}
  /\ msg.id = id

\* the listener of GPXParser.init: parses and pendingResolvers after the
\* event
GpxHandleMessage(msg) ==
  LET hit == {r \in pendingResolvers : GpxSettles(msg, r.id)} IN
  [parses |->
     [p \in 1..Len(parses) |->
        IF (\E r \in hit : r.parse = p) /\ parses[p].res = Pending
        THEN [parses[p] EXCEPT
                !.pc = "done",
                !.res = IF msg.type = "GPX_PARSED" THEN Resolved(msg.data)
                        ELSE Rejected(msg.error)]
        ELSE parses[p]],
   pendingResolvers |-> pendingResolvers \ hit]

(***************************************************************************)
(* The message events of the window.  ModuleSandbox, GPXParser.init and     *)
(* ThreatMonitor each listen; one event runs the three listeners.           *)
(***************************************************************************)
\* cross-origin messages a page is followed through
MaxForeign == 3

\* "type", "id", "error"
KeyType == <<116, 121, 112, 101>>
KeyId == <<105, 100>>
KeyError == <<101, 114, 114, 111, 114>>

\* the code units of the strings that travel in messages
Chars(str) ==
  CASE str = "SANDBOX_READY" -> <<83, 65, 78, 68, 66, 79, 88, 95, 82, 69, 65, 68, 89>>
    [] str = "SANDBOX_MESSAGE" -> <<83, 65, 78, 68, 66, 79, 88, 95, 77, 69, 83, 83, 65, 71, 69>>
    [] str = "GPX_PARSED" -> <<71, 80, 88, 95, 80, 65, 82, 83, 69, 68>>
    [] str = "GPX_ERROR" -> <<71, 80, 88, 95, 69, 82, 82, 79, 82>>
    [] str = "INVALID_GPX" -> <<73, 78, 86, 65, 76, 73, 68, 95, 71, 80, 88>>
    [] str = "map" -> <<109, 97, 112>>
    [] str = "chart" -> <<99, 104, 97, 114, 116>>
    [] str = "req_1" -> <<114, 101, 113, 95, 49>>
    [] str = "req_2" -> <<114, 101, 113, 95, 50>>
    [] str = "req_3" -> <<114, 101, 113, 95, 51>>
    [] str = "req_4" -> <<114, 101, 113, 95, 52>>
    [] OTHER -> <<>>

\* a message event: event.origin, and event.data.type, .id, .data, .error
Message(origin, type, id, data, error) ==
  [origin |-> origin, type |-> type, id |-> id, data |-> data, error |-> error]

\* event.data as an object
EventData(msg) ==
  ObjV([k \in {KeyType, KeyId}
             \cup (IF msg.type \in {"SANDBOX_MESSAGE", "GPX_PARSED"}
                   THEN {KeyData} ELSE {})
             \cup (IF msg.type = "GPX_ERROR" THEN {KeyError} ELSE {}) |->
          IF k = KeyType THEN StrV(Chars(msg.type))
          ELSE IF k = KeyId THEN StrV(Chars(msg.id))
          ELSE IF k = KeyData THEN msg.data
          ELSE StrV(Chars(msg.error))])

\* the payloads a module posts: the text "</", and the object
\*   {constructor: 1, note: "a/b",
\*    data: {prototype: "p", __proto__: {note: "x"}, note: "<'",
\*           target: ["a/", 7, null]}}
NestedPayload ==
  ObjV([k \in {<<112, 114, 111, 116, 111, 116, 121, 112, 101>>, <<95, 95, 112, 114, 111, 116, 111, 95, 95>>, KeyNote, KeyTarget} |->
          IF k = <<112, 114, 111, 116, 111, 116, 121, 112, 101>> THEN StrV(<<112>>)
          ELSE IF k = <<95, 95, 112, 114, 111, 116, 111, 95, 95>>
               THEN ObjV([j \in {KeyNote} |-> StrV(<<120>>)])
          ELSE IF k = KeyNote THEN StrV(<<60, 39>>)
          ELSE ArrV(<<StrV(<<97, 47>>), NumV(7), NullV>>)])

SandboxPayloads ==
  {StrV(<<60, 47>>),
   ObjV([k \in {<<99, 111, 110, 115, 116, 114, 117, 99, 116, 111, 114>>, KeyNote, KeyData} |->
           IF k = KeyNote THEN StrV(<<97, 47, 98>>)
           ELSE IF k = KeyData THEN NestedPayload
           ELSE NumV(1)])}

\* the points of a parsed track
GpxPoints == ArrV(<<NumV(7)>>)

\* the messages sent from documents of the host origin
HostMessages ==
  {Message(HostOrigin, "SANDBOX_READY", m, NullV, "") : m \in ModuleIds}
    \cup {Message(HostOrigin, "SANDBOX_MESSAGE", "map", d, "") :
            d \in SandboxPayloads}
    \cup {Message(HostOrigin, "GPX_PARSED", r, GpxPoints, "") :
            r \in {"req_1", "req_2"}}
    \cup {Message(HostOrigin, "GPX_ERROR", "req_1", NullV, "INVALID_GPX")}

\* the messages sent from documents of another origin
ForeignMessages ==
  {Message(EvilOrigin, "SANDBOX_READY", "map", NullV, ""),
   Message(EvilOrigin, "SANDBOX_MESSAGE", "map", StrV(<<60, 47>>), ""),
   Message(OpaqueOrigin, "GPX_PARSED", "req_1", GpxPoints, ""),
   Message(EvilOrigin, "GPX_ERROR", "req_1", NullV, "INVALID_GPX")}

\* ThreatMonitor.handleMessage: what recordEvent makes of the event, or
\* nothing for a message of the host origin
MonitorHandleMessage(msg) ==
  IF msg.origin # HostOrigin
  THEN RecordEvent(monitor, now, "CROSS_ORIGIN_MESSAGE",
                   ObjV([k \in {KeyOrigin, KeyData} |->
                           IF k = KeyOrigin THEN StrV(msg.origin)
                           ELSE SanitizeEventData(EventData(msg))]))
  ELSE [monitor |-> monitor, rendered |-> FALSE, logged |-> None]

\* renderSafeContent(document.body, ...): element.textContent = '' removes
\* every iframe, and the markup of the banner is a div, which is not in the
\* allow-list
BodyAfter(rendered) == IF rendered THEN <<>> ELSE dom

\* a message event is dispatched to the three listeners
OnMessage(msg) ==
  /\ msg.origin # HostOrigin =>
       now <= PageHorizon /\ Len(monitor.eventHistory) < MaxForeign
  /\ LET sandbox == SandboxHandleMessage(msg)
         gpx == GpxHandleMessage(msg)
         threat == MonitorHandleMessage(msg)
     IN /\ creations' = sandbox.creations
        /\ pendingMessages' = sandbox.pendingMessages
        /\ dispatched' = sandbox.dispatched
        /\ parses' = gpx.parses
        /\ pendingResolvers' = gpx.pendingResolvers
        /\ monitor' = threat.monitor
        /\ sink' = IF threat.logged = None THEN sink
                   ELSE Append(sink, threat.logged)
        /\ dom' = BodyAfter(threat.rendered)
  /\ event' = [kind |-> "message", origin |-> msg.origin,
               type |-> msg.type, id |-> msg.id]
  /\ UNCHANGED <<now, xss>>
  /\ UNCHANGED storeVars

(***************************************************************************)
(* Events recorded by the monitor's own listeners, time, and the timer of   *)
(* _blockAccess.                                                            *)
(***************************************************************************)
\* recordEvent calls a page is followed through
MaxEvents == 5

\* "keyCode", and a note of DetailLimit + 1 letters
KeyKeyCode == <<107, 101, 121, 67, 111, 100, 101>>
LongNote == [i \in 1..(DetailLimit + 1) |-> 97]

\* the events recorded: the developer tools shortcut (weight 1), and rapid
\* keystrokes (weight 3) whose details carry a password, a Token, a "/" and
\* a long note
ThreatInputs ==
  {[type |-> "DEVELOPER_TOOLS_ATTEMPT",
    details |-> ObjV([k \in {KeyKeyCode} |-> NumV(73)])],
   [type |-> "RAPID_KEYSTROKES",
    details |-> ObjV([k \in {KeyPassword, KeyTokenCapital, KeyNote} |->
                        IF k = KeyNote THEN StrV(LongNote)
                        ELSE StrV(<<115, 47>>)])]}

\* trackKeystrokes, handleError or another caller records an event
ThreatEvent(type, details) ==
  /\ now <= ThreatHorizon
  /\ Len(monitor.eventHistory) < MaxEvents
  /\ LET threat == RecordEvent(monitor, now, type, details) IN
     /\ monitor' = threat.monitor
     /\ sink' = Append(sink, threat.logged)
     /\ dom' = BodyAfter(threat.rendered)
  /\ event' = None
  /\ UNCHANGED <<now, creations, pendingMessages, dispatched, parses,
                 pendingResolvers, xss>>
  /\ UNCHANGED storeVars

\* recordEvent calls in a burst that fills the history
MaxBurst == 103

\* "attempt"
KeyAttempt == <<97, 116, 116, 101, 109, 112, 116>>

\* a burst of INVALID_GPX events within one instant, each with its number
\* in its details
RecordBurst ==
  /\ Len(sink) < MaxBurst
  /\ LET threat == RecordEvent(monitor, now, "INVALID_GPX",
                               ObjV([k \in {KeyAttempt} |->
                                       NumV(Len(sink) + 1)]))
     IN /\ monitor' = threat.monitor
        /\ sink' = Append(sink, threat.logged)
        /\ dom' = BodyAfter(threat.rendered)
  /\ event' = None
  /\ UNCHANGED <<now, creations, pendingMessages, dispatched, parses,
                 pendingResolvers, xss>>
  /\ UNCHANGED storeVars

\* the click listener _showWarning adds to the button of the banner: the
\* banner is removed and warningShown reset.  It exists only once
\* getElementById has found the button, which no rendering of the banner
\* brings about, so no specification below takes this step.
DismissWarning ==
  /\ monitor.banner
  /\ monitor' = [monitor EXCEPT !.banner = FALSE, !.warningShown = FALSE]
  /\ event' = None
  /\ UNCHANGED <<now, dom, creations, pendingMessages, dispatched, parses,
                 pendingResolvers, sink, xss>>
  /\ UNCHANGED storeVars

\* the times at which a started timer is due
Deadlines ==
  {creations[c].at + CreationTimeout :
     c \in {i \in 1..Len(creations) : creations[i].timer = "armed"}}
    \cup monitor.timers

\* a variant in which a parse that waits is given up as time passes
ElapseParseTimeout(d) ==
  /\ d > 0
  /\ \A u \in Deadlines : now + d <= u
  /\ now' = now + d
  /\ parses' = [p \in 1..Len(parses) |->
                  IF parses[p].pc = "waiting"
                  THEN [parses[p] EXCEPT !.pc = "done",
                                         !.res = Rejected("PARSE_TIMEOUT")]
                  ELSE parses[p]]
  /\ pendingResolvers' =
       {r \in pendingResolvers : parses[r.parse].pc # "waiting"}
  /\ event' = None
  /\ UNCHANGED <<dom, creations, pendingMessages, dispatched, monitor, sink,
                 xss>>
  /\ UNCHANGED storeVars

\* time passes; a timer that is due runs before time passes on
Elapse(d) ==
  /\ d > 0
  /\ \A u \in Deadlines : now + d <= u
  /\ now' = now + d
  /\ event' = None
  /\ UNCHANGED <<dom, creations, pendingMessages, dispatched, parses,
                 pendingResolvers, monitor, sink, xss>>
  /\ UNCHANGED storeVars

\* the delays time is advanced by: a step up to the horizon, or up to the
\* next deadline
Delays(step, horizon) ==
  {d \in {step} : now + d <= horizon} \cup {u - now : u \in Deadlines}

\* a variant of the callback that never finds its own entry
UnblockTimerIdle(blockUntil) ==
  /\ blockUntil \in monitor.timers
  /\ now >= blockUntil
  /\ monitor' = [monitor EXCEPT !.timers = @ \ {blockUntil}]
  /\ event' = None
  /\ UNCHANGED <<now, dom, creations, pendingMessages, dispatched, parses,
                 pendingResolvers, sink, xss>>
  /\ UNCHANGED storeVars

\* a variant of the callback that lifts whatever block is registered
UnblockTimerUnguarded(blockUntil) ==
  /\ blockUntil \in monitor.timers
  /\ now >= blockUntil
  /\ dom' = <<GpxFrame>>
  /\ creations' = <<>>
  /\ pendingMessages' = [m \in ModuleIds |-> None]
  /\ dispatched' = {}
  /\ parses' = <<>>
  /\ pendingResolvers' = {}
  /\ monitor' = NewMonitor
  /\ xss' = NoCalls
  /\ event' = None
  /\ UNCHANGED <<now, sink>>
  /\ UNCHANGED storeVars

\* the callback of the timer of _blockAccess whose block ends at blockUntil:
\* if the entry is still its own it deletes it and location.reload() loads
\* the page anew; the logger's record is kept for inspection
UnblockTimerFires(blockUntil) ==
  /\ blockUntil \in monitor.timers
  /\ now >= blockUntil
  /\ IF monitor.blockedIps = [kind |-> "until", at |-> blockUntil]
     THEN /\ dom' = <<GpxFrame>>
          /\ creations' = <<>>
          /\ pendingMessages' = [m \in ModuleIds |-> None]
          /\ dispatched' = {}
          /\ parses' = <<>>
          /\ pendingResolvers' = {}
          /\ monitor' = NewMonitor
          /\ xss' = NoCalls
     ELSE /\ monitor' = [monitor EXCEPT !.timers = @ \ {blockUntil}]
          /\ UNCHANGED <<dom, creations, pendingMessages, dispatched, parses,
                         pendingResolvers, xss>>
  /\ event' = None
  /\ UNCHANGED <<now, sink>>
  /\ UNCHANGED storeVars

(***************************************************************************)
(* Calls of XSSProtection.                                                  *)
(***************************************************************************)
\* the characters sanitize replaces, and a letter
SpecialChars == {38, 60, 62, 34, 39, 47, 92, 97}

\* the values handed to sanitize: every string of up to two of these
\* characters, a number and null
SanitizeInputs ==
  {StrV(<<>>)} \cup {StrV(<<c>>) : c \in SpecialChars}
    \cup {StrV(<<c, d>>) : c \in SpecialChars, d \in SpecialChars}
    \cup {NumV(42), NullV}

CallSanitize(v) ==
  /\ xss' = [xss EXCEPT !.sanitize = [input |-> v, output |-> Sanitize(v)]]
  /\ UNCHANGED <<now, dom, creations, pendingMessages, dispatched, parses,
                 pendingResolvers, monitor, sink, event>>
  /\ UNCHANGED storeVars

(***************************************************************************)
(* Specifications of the page.                                              *)
(***************************************************************************)
\* the stores are left as a fresh profile has them, before any call
StoreIdle ==
  /\ hasCrypto = TRUE
  /\ storage = [n \in StorageNames |-> Absent]
  /\ initBlob = Absent
  /\ initPc = "derive"
  /\ encryptionKey = NoKey
  /\ task = [t \in Tasks |-> IdleTask]
  /\ rng = 0
  /\ written = <<>>
  /\ lastSet = [k \in LogicalKeys \cup {TestKey} |-> NoValue]
  /\ cleared = NotCleared
  /\ wiped = FALSE
  /\ fbLast = [k \in LogicalKeys |-> NoValue]
  /\ fbResult = [has |-> FALSE, key |-> "", res |-> Pending]
  /\ securityStatus = NotChecked

PageInit == StoreIdle /\ PageLoaded

\* the messages of the host origin that name a module, and those that name
\* a parse request
SandboxMessages ==
  {msg \in HostMessages : msg.type \in {"SANDBOX_READY", "SANDBOX_MESSAGE"}}
GpxMessages ==
  {msg \in HostMessages : msg.type \in {"GPX_PARSED", "GPX_ERROR"}}

\* the module sandboxes over time
SandboxNext ==
  \/ \E m \in ModuleIds : CreateSandbox(m)
  \/ \E c \in 1..MaxCreates : CreationTimerFires(c)
  \/ \E m \in ModuleIds : DestroySandbox(m)
  \/ \E msg \in SandboxMessages : OnMessage(msg)
  \/ \E d \in Delays(PageStep, PageHorizon) : Elapse(d)

SandboxSpec == PageInit /\ [][SandboxNext]_vars

\* time passes as long as it can, and a timer that is due runs
FairSandboxSpec ==
  /\ SandboxSpec
  /\ WF_vars(\E d \in Delays(PageStep, PageHorizon) : Elapse(d))
  /\ \A c \in 1..MaxCreates : WF_vars(CreationTimerFires(c))

\* the parser over time
GpxNext ==
  \/ \E f \in GpxFiles : Parse(f)
  \/ \E p \in 1..MaxParses : FileRead(p)
  \/ \E msg \in GpxMessages : OnMessage(msg)
  \/ \E d \in Delays(PageStep, PageHorizon) : Elapse(d)

GpxSpec == PageInit /\ [][GpxNext]_vars

\* a message of each origin for the module, for what it posts and for the
\* first parse request
PageMessages ==
  {msg \in HostMessages \cup ForeignMessages :
     /\ msg.id \in {"map", "req_1"}
     /\ msg.type # "GPX_ERROR"
     /\ msg.data.t # "obj"}

\* the three listeners of the message event together, at one instant, with
\* one module and one file
PageNext ==
  \/ CreateSandbox("map")
  \/ \E f \in {g \in GpxFiles : g.size = MaxFileSize /\ g.name = GpxName} :
       Parse(f)
  \/ \E p \in 1..MaxParses : FileRead(p)
  \/ \E msg \in PageMessages : OnMessage(msg)

PageSpec == PageInit /\ [][PageNext]_vars

ThreatNext ==
  \/ \E in \in ThreatInputs : ThreatEvent(in.type, in.details)
  \/ \E d \in Delays(ThreatStep, ThreatHorizon) : Elapse(d)
  \/ \E u \in monitor.timers : UnblockTimerFires(u)

ThreatSpec == PageInit /\ [][ThreatNext]_vars

\* the history of the monitor as it fills
HistoryNext == RecordBurst

HistorySpec == PageInit /\ [][HistoryNext]_vars

\* time passes as long as it can, and a timer that is due runs
FairThreatSpec ==
  /\ ThreatSpec
  /\ WF_vars(\E d \in Delays(ThreatStep, ThreatHorizon) : Elapse(d))
  /\ WF_vars(\E u \in monitor.timers : UnblockTimerFires(u))

\* calls of XSSProtection
XssNext ==
  \/ \E v \in SanitizeInputs : CallSanitize(v)
  \/ \E html \in HtmlFragments : CallSafeInsertHtml(html)

XssSpec == PageInit /\ [][XssNext]_vars

(***************************************************************************)
(* SecurityCore: the status check its interval timer runs.                  *)
(***************************************************************************)
\* the checks of one session
MaxChecks == 3

\* setInterval(() => this._checkSecurityStatus(), 30000)
CheckInterval == 30000

\* "timestamp"
KeyTimestamp == <<116, 105, 109, 101, 115, 116, 97, 109, 112>>

\* const testData = { timestamp: Date.now() }, at the n-th check
TestData(n) == ObjV([k \in {KeyTimestamp} |-> NumV(n * CheckInterval)])

\* _checkCSP(): 'OK' if inserting the test script throws, 'CSP_BYPASSED' if
\* the lines run through
CheckCSP(throws) == IF throws THEN "OK" ELSE "CSP_BYPASSED"

\* _checkStorageEncryption() from the read of the raw entry on
CheckStorageEncryption(raw) ==
  IF Falsy(raw) THEN "STORAGE_NOT_ENCRYPTED"
  ELSE IF raw.kind = "text" THEN "ENCRYPTION_ERROR"
  ELSE IF raw.kind # "envelope" THEN "STORAGE_NOT_ENCRYPTED"
  ELSE IF "iv" \in raw.fields /\ raw.iv # <<>> THEN "OK"
  ELSE "STORAGE_NOT_ENCRYPTED"

\* _checkModuleUpdates()
CheckModuleUpdates == "OK"

\* _checkSecurityStatus(): the three checks, then the indicator.  The call
\* of this.storage.setItem runs up to await this.keyPromise and returns its
\* promise, which the check does not wait for.
CheckSecurityStatus(t, throws) ==
  /\ FreeSlot(t)
  /\ securityStatus.checks < MaxChecks
  /\ rng + Cardinality(Undrawn) < MaxDraws
  /\ LET raw == storage[SecureName(TestKey)]
         status == [csp |-> CheckCSP(throws),
                    storage |-> CheckStorageEncryption(raw),
                    updates |-> CheckModuleUpdates]
         racing ==
           {u \in Tasks \ {t} :
              InFlight(u) /\ task[u].op = "set" /\ task[u].key = TestKey}
     IN /\ task' =
             [u \in Tasks |->
                IF u = t
                THEN [IdleTask EXCEPT !.op = "set", !.pc = "awaitKey",
                                      !.key = TestKey,
                                      !.value =
                                        TestData(securityStatus.checks + 1),
                                      !.overlap = (racing # {})]
                ELSE IF u \in racing THEN [task[u] EXCEPT !.overlap = TRUE]
                ELSE task[u]]
        /\ storage' =
             IF status.storage = "OK"
             THEN [storage EXCEPT ![SecureName(TestKey)] = Absent]
             ELSE storage
        /\ securityStatus' =
             [checks |-> securityStatus.checks + 1,
              csp |-> status.csp,
              storage |-> status.storage,
              text |-> IF \A c \in DOMAIN status : status[c] = "OK"
                       THEN "OK" ELSE "WARNING",
              ready |-> (KeyState = "READY"),
              slot |-> t]
  /\ cleared' = NotCleared
  /\ UNCHANGED <<encryptionKey, initPc, initBlob, rng, written, lastSet,
                 wiped, fbLast, fbResult, hasCrypto>>
  /\ UNCHANGED pageVars

\* the profile as the page finds it: with or without a key blob of this
\* device, with or without the test entry an earlier session left
StatusInit ==
  /\ hasCrypto = TRUE
  /\ \E blob \in {Absent, JwkEntry(DeriveKey(DeviceFingerprint))},
        left \in {Absent, StoredEnvelope(RandomIv(201), <<>>)} :
       /\ storage = [n \in StorageNames |->
                       IF n = KeyBlobName THEN blob
                       ELSE IF n = SecureName(TestKey) THEN left
                       ELSE Absent]
       /\ initBlob = blob
       /\ initPc = IF blob = Absent THEN "derive" ELSE "import"
  /\ encryptionKey = NoKey
  /\ task = [t \in Tasks |-> IdleTask]
  /\ rng = 0
  /\ written = <<>>
  /\ lastSet = [k \in LogicalKeys \cup {TestKey} |-> NoValue]
  /\ cleared = NotCleared
  /\ wiped = FALSE
  /\ fbLast = [k \in LogicalKeys |-> NoValue]
  /\ fbResult = [has |-> FALSE, key |-> "", res |-> Pending]
  /\ securityStatus = NotChecked
  /\ PageLoaded

\* the store of SecurityCore and its status checks
StatusNext ==
  \/ CtorImported
  \/ CtorDerived
  \/ CtorExported
  \/ \E t \in Tasks : KeyPromiseRejected(t)
  \/ \E t \in Tasks : SetItemEncrypt(t)
  \/ \E t \in Tasks : SetItemStore(t)
  \/ \E t \in Tasks, throws \in BOOLEAN : CheckSecurityStatus(t, throws)

StatusSpec == StatusInit /\ [][StatusNext]_vars

(***************************************************************************)
(* Key rotation: a profile that holds an envelope under secure_shoes, read  *)
(* back while the application stores under another key.                      *)
(***************************************************************************)
RotationInit == Init /\ hasCrypto /\ storage[SecureName("shoes")] # Absent

RotationNext ==
  \/ CtorImported
  \/ CtorDerived
  \/ CtorExported
  \/ \E t \in Tasks, v \in StoreValues : CallSetItem(t, "activities", v)
  \/ \E t \in Tasks, k \in LogicalKeys : CallGetItem(t, k)
  \/ \E t \in Tasks : KeyPromiseRejected(t)
  \/ \E t \in Tasks : SetItemEncrypt(t)
  \/ \E t \in Tasks : SetItemStore(t)
  \/ \E t \in Tasks : GetItemRead(t)
  \/ \E t \in Tasks : GetItemDecrypted(t)
  \/ \E t \in Tasks : RetryDerived(t)
  \/ \E t \in Tasks : RetryExported(t)

RotationSpec == RotationInit /\ [][RotationNext]_vars

(***************************************************************************)
(* Properties.                                                              *)
(***************************************************************************)
Done(t) == task[t].pc = "done"
DoneGet(t) == Done(t) /\ task[t].op = "get"
DoneSet(t) == Done(t) /\ task[t].op = "set"
InitError == Rejected("SECURE_STORAGE_INIT_FAILED")

\* C1: setItem(k, v) followed by getItem(k), with no other write to k, no
\* clear() and no key change in between, returns v.
C1_SecureRoundTrip ==
  \A t \in Tasks :
    DoneGet(t) /\ task[t].expect.has
      => task[t].res = Resolved(task[t].expect.v)

\* C2: one getItem call derives the key again at most once and decrypts at
\* most twice.
C2_BoundedRetry ==
  \A t \in Tasks :
    task[t].op = "get" => task[t].derives <= 1 /\ task[t].decrypts <= 2

\* C3: once the store is READY no getItem call rejects; every failure of
\* the read, of the decryption and of the key regeneration resolves to null.
C3_GetNeverRejectsOnceReady ==
  \A t \in Tasks :
    DoneGet(t) /\ KeyState = "READY" => task[t].res.kind = "resolved"

\* C4: no call reads or writes an envelope or calls encrypt / decrypt before
\* the constructor's key acquisition has finished; FAILED is terminal, and
\* on a FAILED store every call rejects with the initialization error
\* without having touched envelope storage.
C4_GatedOnKeyReadiness ==
  /\ [](\A t \in Tasks :
          /\ task[t].pc \in {"encrypt", "decrypt", "derive", "export"}
               => KeyState = "READY"
          /\ task[t].touched => KeyState = "READY"
          /\ Done(t) /\ KeyState = "FAILED"
               => task[t].res = InitError /\ ~task[t].touched)
  /\ [][KeyState = "FAILED" => KeyState' = "FAILED" /\ written' = written
          /\ \A k \in LogicalKeys :
               storage'[SecureName(k)] \in {storage[SecureName(k)], Absent}]_vars

\* C4 happens: on a store whose key acquisition failed a setItem and a
\* getItem were both turned away with the initialization error
C4_Witness ==
  /\ KeyState = "FAILED"
  /\ \E t \in Tasks : DoneSet(t) /\ task[t].res = InitError
  /\ \E t \in Tasks : DoneGet(t) /\ task[t].res = InitError

\* C5: getItem(k) on a key with no stored entry returns null, not an error,
\* for SecureStorage and for FallbackStorage.
C5_NeverSetIsNull ==
  /\ \A t \in Tasks :
       DoneGet(t) /\ task[t].absent => task[t].res = Resolved(NullV)
  /\ fbResult.has /\ storage[FallbackName(fbResult.key)] = Absent
       => fbResult.res = Resolved(NullV)

\* C5, as the code has it: getItem(k) on a key with no stored entry returns
\* null for FallbackStorage, and for SecureStorage unless its key
\* acquisition failed, in which case it rejects with the initialization
\* error.
C5_NeverSetIsNullUnlessFailed ==
  /\ \A t \in Tasks :
       DoneGet(t) /\ task[t].absent
         => task[t].res = IF KeyState = "FAILED" THEN InitError
                          ELSE Resolved(NullV)
  /\ fbResult.has /\ storage[FallbackName(fbResult.key)] = Absent
       => fbResult.res = Resolved(NullV)

\* C5 happens: a READY SecureStorage answered null for a key with no entry
\* while another key had one
C5_Witness ==
  /\ KeyState = "READY"
  /\ \E t \in Tasks :
       /\ DoneGet(t) /\ task[t].absent /\ task[t].key = "activities"
       /\ task[t].res = Resolved(NullV)
       /\ storage[SecureName("shoes")] # Absent

\* C6: every setItem draws a fresh 12-byte nonce, and no two envelopes the
\* store wrote carry the same iv, whatever the keys and values.
C6_IvNonReuse ==
  /\ \A i \in 1..Len(written) :
       /\ Atob(written[i].env.iv).ok
       /\ Len(Atob(written[i].env.iv).bytes) = IvLength
  /\ \A i, j \in 1..Len(written) :
       i # j => Atob(written[i].env.iv).bytes # Atob(written[j].env.iv).bytes

\* C6 happens: two envelopes were written one after the other under the
\* same key
C6_Witness ==
  /\ Len(written) >= 2
  /\ written[1].name = written[2].name
  /\ storage[written[2].name] = written[2].env

\* the entries clear() is to remove
Reserved(n) == StartsWith(n, "secure_") \/ n = KeyBlobName

\* what clear() did to localStorage
ClearFrame ==
  cleared.on =>
    \A n \in StorageNames :
      storage[n] = IF Reserved(n) THEN Absent ELSE cleared.before[n]

\* C7: clear() removes every secure_ entry and the key blob and leaves every
\* other entry unchanged; afterwards getItem(k) returns null for every k.
C7_ClearFrame ==
  /\ ClearFrame
  /\ \A t \in Tasks :
       DoneGet(t) /\ task[t].wiped => task[t].res = Resolved(NullV)

\* C7, as the code has it: the same removal and frame; afterwards getItem(k)
\* returns null for every k unless the key acquisition of the store failed,
\* in which case it rejects with the initialization error.
C7_ClearFrameUnlessFailed ==
  /\ ClearFrame
  /\ \A t \in Tasks :
       DoneGet(t) /\ task[t].wiped
         => task[t].res = IF KeyState = "FAILED" THEN InitError
                          ELSE Resolved(NullV)

\* C7 happens: clear() has just removed an envelope and the key blob and
\* kept the other entries, and a getItem that followed an earlier clear()
\* on this READY store returned null
C7_Witness ==
  /\ cleared.on
  /\ cleared.before[SecureName("shoes")] # Absent
  /\ cleared.before[KeyBlobName] # Absent
  /\ storage[OtherName] # Absent
  /\ storage[FallbackName("shoes")] # Absent
  /\ KeyState = "READY"
  /\ \E t \in Tasks :
       DoneGet(t) /\ task[t].wiped /\ task[t].res = Resolved(NullV)

\* C8: when the encryption or the storage write throws inside setItem, the
\* failure is logged as a security event, setItem rejects with
\* DATA_ENCRYPTION_FAILED, and no storage entry changes.
C8_SetItemFailure ==
  /\ [](\A t \in Tasks :
          DoneSet(t) /\ task[t].fault # "none"
            => /\ task[t].res = Rejected("DATA_ENCRYPTION_FAILED")
               /\ "ENCRYPTION_FAILED" \in task[t].logged)
  /\ [][\A t \in Tasks :
          task[t].pc = "encrypt" /\ task'[t].pc = "done"
          /\ task'[t].fault # "none"
            => storage' = storage]_vars

\* C8 happens: the storage write of a setItem threw while an envelope of an
\* earlier setItem was stored under the same key
C8_Witness ==
  \E t \in Tasks :
    /\ DoneSet(t) /\ task[t].fault = "write"
    /\ task[t].res = Rejected("DATA_ENCRYPTION_FAILED")
    /\ Len(written) >= 1
    /\ storage[SecureName(task[t].key)] = written[Len(written)].env

\* C9: FallbackStorage.setItem(k, v) followed by getItem(k) returns v: the
\* de-obfuscation inverts the obfuscation of the base64 payload.
C9_FallbackRoundTrip ==
  /\ fbResult.has /\ fbLast[fbResult.key].has
       => fbResult.res = Resolved(fbLast[fbResult.key].v)
  /\ \A k \in LogicalKeys :
       fbLast[k].has =>
         /\ storage[FallbackName(k)] = TextEntry(FallbackEncode(fbLast[k].v))
         /\ Deobfuscate(storage[FallbackName(k)].chars)
              = Btoa(Utf8Encode(JsonStringify(fbLast[k].v)))

\* C9 happens: getItem returned the string with a quote and a non-ASCII
\* letter that setItem had stored
C9_Witness ==
  /\ fbResult.has
  /\ fbLast[fbResult.key] = Some(StrV(<<34, 233>>), FALSE, NoKey)
  /\ fbResult.res = Resolved(StrV(<<34, 233>>))

\* C10: after concurrent setItem calls on one key, getItem returns the
\* value of the call whose storage write happened last.
C10_LastWriteWins ==
  \A t \in Tasks :
    DoneGet(t) /\ task[t].expect.has /\ task[t].expect.raced
      => task[t].res = Resolved(task[t].expect.v)
\* a createSandbox call whose promise is pending
Creating(c) == c \in 1..Len(creations) /\ creations[c].result = None

\* C11: the promise of every createSandbox call resolves, on SANDBOX_READY
\* for its module id or when its timer runs 3 seconds after the call at the
\* latest, and it resolves with the iframe that same call created
C11_CreationResolves ==
  /\ [](\A c \in 1..Len(creations) :
          /\ creations[c].result \in {None, Frame(c)}
          /\ creations[c].result = None =>
               now <= creations[c].at + CreationTimeout)
  /\ \A c \in 1..MaxCreates :
       Creating(c) ~> (c \in 1..Len(creations) /\ creations[c].result = Frame(c))

\* two calls for one module id: the first resolved by its timer after the
\* second replaced its entry, the second resolved by SANDBOX_READY
C11_Witness ==
  /\ Len(creations) >= 2
  /\ creations[1].moduleId = creations[2].moduleId
  /\ creations[2].at < creations[1].at + CreationTimeout
  /\ creations[1].timer = "fired" /\ creations[1].result = Frame(1)
  /\ creations[2].timer = "cleared" /\ creations[2].result = Frame(2)

\* C12: at any time the document holds at most one iframe per module id
C12_OneFramePerModule ==
  \A m \in ModuleIds : Len(FramesOf(m)) <= 1

\* the last step delivered a message event of another origin
CrossOriginDelivered == event.kind = "message" /\ event.origin # HostOrigin

\* C13: a message event whose origin is not the host origin resolves no
\* pending createSandbox call, dispatches no sandbox-message event and
\* settles no parse request; the monitor records it as CROSS_ORIGIN_MESSAGE
\* with its origin and nothing else comes of it
C13_CrossOriginDropped ==
  [][CrossOriginDelivered' =>
       /\ creations' = creations
       /\ pendingMessages' = pendingMessages
       /\ dispatched' = dispatched
       /\ parses' = parses
       /\ pendingResolvers' = pendingResolvers
       /\ Len(monitor'.eventHistory) = Len(monitor.eventHistory) + 1
       /\ LET recorded == monitor'.eventHistory[Len(monitor'.eventHistory)] IN
          /\ recorded.type = "CROSS_ORIGIN_MESSAGE"
          /\ recorded.details.o[KeyOrigin] = StrV(event'.origin)]_vars

\* a GPX_PARSED message of another origin that names the request of a
\* waiting parse has arrived, while a createSandbox call is pending too
C13_Witness ==
  /\ CrossOriginDelivered
  /\ Creating(1)
  /\ Len(parses) >= 1 /\ parses[1].pc = "waiting"
  /\ parses[1].requestId = "req_1"
  /\ LET recorded == monitor.eventHistory[Len(monitor.eventHistory)] IN
     recorded.details.o[KeyData].o[KeyType] = StrV(Chars("GPX_PARSED"))

\* the name ends in ".gpx" in any mix of upper and lower case
NamedGpx(file) ==
  /\ Len(file.name) >= 4
  /\ LET n == Len(file.name) IN
     /\ file.name[n - 3] = 46
     /\ file.name[n - 2] \in {103, 71}
     /\ file.name[n - 1] \in {112, 80}
     /\ file.name[n] \in {120, 88}

\* parse rejected the file with this error before it read it, registered
\* a resolver or posted anything
RejectedUnread(call, error) ==
  /\ call.res = Rejected(error)
  /\ ~call.read /\ ~call.registered /\ ~call.posted

\* C14 as stated: a file whose name does not end in .gpx is rejected with
\* INVALID_FILE_EXTENSION, and a file larger than 5 * 1024 * 1024 bytes with
\* FILE_TOO_LARGE whatever its extension, both before anything is read,
\* registered or posted
C14_RejectedBeforeRead ==
  \A p \in 1..Len(parses) :
    /\ ~NamedGpx(parses[p].file) =>
         RejectedUnread(parses[p], "INVALID_FILE_EXTENSION")
    /\ parses[p].file.size > 5 * 1024 * 1024 =>
         RejectedUnread(parses[p], "FILE_TOO_LARGE")

\* C14, amended: FILE_TOO_LARGE is the error of a file larger than
\* 5 * 1024 * 1024 bytes whose name ends in .gpx; a file whose name does not
\* is rejected with INVALID_FILE_EXTENSION whatever its size; both before
\* anything is read, registered or posted, and no other file is rejected
\* with either error
C14_ExtensionCheckedFirst ==
  \A p \in 1..Len(parses) :
    LET file == parses[p].file IN
    /\ ~NamedGpx(file) => RejectedUnread(parses[p], "INVALID_FILE_EXTENSION")
    /\ NamedGpx(file) /\ file.size > 5 * 1024 * 1024 =>
         RejectedUnread(parses[p], "FILE_TOO_LARGE")
    /\ NamedGpx(file) /\ file.size <= 5 * 1024 * 1024 =>
         /\ parses[p].read
         /\ parses[p].res \notin {Rejected("INVALID_FILE_EXTENSION"),
                                  Rejected("FILE_TOO_LARGE")}

\* "r.txt" of 5 * 1024 * 1024 + 1 bytes was rejected for its extension, and
\* "A.GPX" of that size for its size
C14_Witness ==
  \E p, q \in 1..Len(parses) :
    /\ parses[p].file.name = <<114, 46, 116, 120, 116>>
    /\ parses[p].file.size = 5 * 1024 * 1024 + 1
    /\ parses[p].res = Rejected("INVALID_FILE_EXTENSION")
    /\ parses[q].file.name = <<65, 46, 71, 80, 88>>
    /\ parses[q].file.size = 5 * 1024 * 1024 + 1
    /\ parses[q].res = Rejected("FILE_TOO_LARGE")

\* parse call p has posted PARSE_GPX and waits for the reply
Waiting(p) == p \in 1..Len(parses) /\ parses[p].pc = "waiting"

\* the last step delivered a reply to request id from the host origin
Replied(id) ==
  /\ event.kind = "message"
  /\ event.origin = HostOrigin
  /\ event.type \in {"GPX_PARSED", "GPX_ERROR"}
  /\ event.id = id

\* C15: nothing but a reply settles a parse that waits: whatever else
\* happens and however much time passes, its promise stays pending and its
\* entry stays in pendingResolvers
C15_NoParseTimeout ==
  [][\A p \in 1..MaxParses :
       Waiting(p) /\ ~Replied(parses[p].requestId)' =>
         /\ Waiting(p)'
         /\ parses'[p].res = Pending
         /\ [id |-> parses[p].requestId, parse |-> p] \in pendingResolvers']_vars

\* a parse still waits at the end of the time followed, after another
\* request was answered
C15_Witness ==
  /\ now >= PageHorizon
  /\ \E p, q \in 1..Len(parses) :
       /\ Waiting(p) /\ parses[p].res = Pending
       /\ [id |-> parses[p].requestId, parse |-> p] \in pendingResolvers
       /\ parses[q].res = Resolved(GpxPoints)

\* the entity sanitize is said to put in the place of a character
EntityOf(c) ==
  CASE c = 38 -> <<38, 97, 109, 112, 59>>
    [] c = 60 -> <<38, 108, 116, 59>>
    [] c = 62 -> <<38, 103, 116, 59>>
    [] c = 34 -> <<38, 113, 117, 111, 116, 59>>
    [] c = 39 -> <<38, 35, 48, 51, 57, 59>>
    [] c = 47 -> <<38, 35, 120, 50, 70, 59>>
    [] c = 92 -> <<38, 35, 120, 53, 67, 59>>
    [] OTHER -> <<c>>

RECURSIVE Encoded(_)
Encoded(str) ==
  IF Len(str) = 0 THEN <<>> ELSE EntityOf(Head(str)) \o Encoded(Tail(str))

\* C16: the result of sanitize on a string holds no "<" and no ">", each of
\* & < > " ' / \ being replaced by its entity, and anything but a string is
\* returned as it is
C16_SanitizeEncodes ==
  xss.sanitize # None =>
    LET call == xss.sanitize IN
    IF call.input.t = "str"
    THEN /\ call.output.t = "str"
         /\ \A i \in 1..Len(call.output.s) : call.output.s[i] \notin {60, 62}
         /\ call.output.s = Encoded(call.input.s)
    ELSE call.output = call.input

\* the tags and attributes safeInsertHtml is said to let through
ListedTags ==
  {<<98>>, <<115, 116, 114, 111, 110, 103>>, <<105>>, <<101, 109>>,
   <<98, 114>>, <<115, 112, 97, 110>>, <<115, 109, 97, 108, 108>>,
   <<115, 117, 112>>, <<115, 117, 98>>}
ListedAttributes == {<<99, 108, 97, 115, 115>>, <<115, 116, 121, 108, 101>>}

\* every node is text or an element of a listed tag with listed attributes
\* only, at every depth
RECURSIVE OnlyListed(_)
OnlyListed(nodes) ==
  \A i \in 1..Len(nodes) :
    IF nodes[i].n = "text" THEN TRUE
    ELSE /\ nodes[i].tag \in ListedTags
         /\ \A a \in 1..Len(nodes[i].attributes) :
              nodes[i].attributes[a].name \in ListedAttributes
         /\ OnlyListed(nodes[i].children)

\* C17: after safeInsertHtml the element holds, at every depth, only text
\* and elements of the allow-list with no attributes but class and style
C17_OnlyAllowListed ==
  xss.inserted # None => OnlyListed(xss.inserted.children)

\* the events recorded since the page was loaded, and the weights of the
\* events up to the i-th that are less than 60 seconds older than it
Recorded == monitor.eventHistory

RECURSIVE WeightWithin(_, _)
WeightWithin(i, j) ==
  IF j = 0 THEN 0
  ELSE (IF Recorded[i].timestamp - Recorded[j].timestamp < 60000
        THEN Recorded[j].riskLevel ELSE 0)
       + WeightWithin(i, j - 1)

\* the first five events weigh 1 each and lie within 60 seconds
FiveWithinWindow ==
  /\ Len(Recorded) >= 5
  /\ \A k \in 1..5 : Recorded[k].riskLevel = 1
  /\ Recorded[5].timestamp - Recorded[1].timestamp < 60000

\* C18: the score of an event is the sum of the weights of the events of
\* the 60 seconds before it, itself included; the block path is taken
\* exactly when the score is at least 5, the warning path exactly when it
\* is at least 3 and less than 5; five events of weight 1 within 60 seconds
\* block once, on the fifth
C18_ScoreAndThresholds ==
  /\ Len(monitor.paths) = Len(Recorded)
  /\ \A i \in 1..Len(Recorded) :
       /\ monitor.paths[i].score = WeightWithin(i, i)
       /\ monitor.paths[i].block <=> monitor.paths[i].score >= 5
       /\ monitor.paths[i].warning <=>
            (monitor.paths[i].score >= 3 /\ monitor.paths[i].score < 5)
  /\ FiveWithinWindow =>
       \A k \in 1..5 : monitor.paths[k].block <=> k = 5

\* five events of weight 1 within 60 seconds, the fifth of which blocked
C18_Witness ==
  /\ FiveWithinWindow
  /\ Len(Recorded) = 5
  /\ monitor.paths[5].block
  /\ monitor.blockedIps = [kind |-> "until",
                           at |-> Recorded[5].timestamp + 300000]

\* the first five events weigh 1 each and lie 30 seconds apart
FiveSpreadOverTwoMinutes ==
  /\ Len(Recorded) >= 5
  /\ \A k \in 1..5 : Recorded[k].riskLevel = 1
  /\ \A k \in 1..4 : Recorded[k + 1].timestamp - Recorded[k].timestamp = 30000

\* the weights of the events up to the j-th, and of those among them that
\* were recorded 60 seconds or more before the i-th
RECURSIVE WeightUpTo(_)
WeightUpTo(j) ==
  IF j = 0 THEN 0 ELSE Recorded[j].riskLevel + WeightUpTo(j - 1)

RECURSIVE WeightExpired(_, _)
WeightExpired(i, j) ==
  IF j = 0 THEN 0
  ELSE (IF Recorded[i].timestamp - Recorded[j].timestamp >= 60000
        THEN Recorded[j].riskLevel ELSE 0)
       + WeightExpired(i, j - 1)

\* C19: an event recorded 60 seconds or more before another adds nothing to
\* its score, and five events of weight 1 spread evenly over two minutes
\* never block
C19_OldEventsExpire ==
  /\ \A i \in 1..Len(monitor.paths) :
       monitor.paths[i].score <= WeightUpTo(i) - WeightExpired(i, i)
  /\ FiveSpreadOverTwoMinutes => \A k \in 1..5 : ~monitor.paths[k].block

\* five events of weight 1, 30 seconds apart, none of which blocked, the
\* last scored without the first three
C19_Witness ==
  /\ FiveSpreadOverTwoMinutes
  /\ Len(Recorded) = 5
  /\ WeightExpired(5, 5) = 3
  /\ monitor.paths[5].score = 2
  /\ monitor.blockedIps = None

\* "password", "token", "cookie"
SecretNames ==
  {<<112, 97, 115, 115, 119, 111, 114, 100>>, <<116, 111, 107, 101, 110>>,
   <<99, 111, 111, 107, 105, 101>>}

\* C20: the details that reach the logger have no field named password,
\* token or cookie in any mix of case, and no string of theirs is longer
\* than 200 characters and the ellipsis
C20_LoggedDetailsSanitized ==
  \A i \in 1..Len(sink) :
    \A k \in DOMAIN sink[i].details.o :
      /\ ToLowerCase(k) \notin SecretNames
      /\ sink[i].details.o[k].t = "str" =>
           Len(sink[i].details.o[k].s) <= 200 + 3

\* the instants at which the block path was taken since the page was loaded
BlockTriggers ==
  {Recorded[i].timestamp : i \in {j \in 1..Len(Recorded) : monitor.paths[j].block}}

\* C21: the block entry is the one of the most recent trigger; a step
\* either replaces it by a newer one or removes it, and it is removed no
\* earlier than 5 minutes after every trigger, so the timer of an earlier
\* trigger does not lift a newer block
C21_StaleUnblockGuard ==
  /\ [](monitor.blockedIps # None =>
          /\ BlockTriggers # {}
          /\ \A t \in BlockTriggers : monitor.blockedIps.at >= t + 300000)
  /\ [][monitor.blockedIps # None /\ monitor'.blockedIps # monitor.blockedIps =>
          \/ /\ monitor'.blockedIps # None
             /\ monitor'.blockedIps.at >= monitor.blockedIps.at
          \/ /\ monitor'.blockedIps = None
             /\ \A t \in BlockTriggers : now >= t + 300000]_vars

\* the timer of an earlier trigger has run and left the block of a later
\* trigger registered
C21_Witness ==
  /\ monitor.blockedIps # None
  /\ \E t \in BlockTriggers :
       /\ t + 300000 \notin monitor.timers
       /\ now >= t + 300000
       /\ monitor.blockedIps.at > t + 300000

\* C22: a registered block does not stay: the entry is eventually removed
\* and the page loaded anew
C22_BlockSelfHeals ==
  (monitor.blockedIps # None)
    ~> (monitor.blockedIps = None /\ monitor.eventHistory = <<>>)

\* the page has been loaded anew 5 minutes after an event that blocked
C22_Witness ==
  /\ monitor = NewMonitor
  /\ sink # <<>>
  /\ now >= 300000
  /\ dom = <<GpxFrame>>

\* C23: an event on the warning path leaves one banner with its dismiss
\* control on display, so that a dismissal can reset warningShown and a
\* later event of a score in [3, 5) can show the banner again
C23_BannerDismissable ==
  /\ monitor.banner => monitor.warningShown
  /\ Len(monitor.paths) > 0 /\ monitor.paths[Len(monitor.paths)].warning =>
       monitor.warningShown /\ monitor.banner

\* the history is the last n events handed to the logger, in their order
LastRecorded(n) ==
  /\ Len(Recorded) = n
  /\ \A j \in 1..n :
       /\ Recorded[j].type = sink[Len(sink) - n + j].type
       /\ Recorded[j].details = sink[Len(sink) - n + j].details

\* C24: after every recordEvent the history holds at most 100 events, the
\* most recently recorded ones in recording order, and a step removes
\* nothing from it but the oldest event, when it adds one to a full history
C24_BoundedHistory ==
  /\ [](/\ Len(Recorded) <= 100
        /\ LastRecorded(IF Len(sink) < 100 THEN Len(sink) ELSE 100))
  /\ [][\/ monitor'.eventHistory = monitor.eventHistory
        \/ /\ Len(monitor.eventHistory) < 100
           /\ SubSeq(monitor'.eventHistory, 1, Len(monitor.eventHistory))
                = monitor.eventHistory
        \/ /\ Len(monitor.eventHistory) = 100
           /\ SubSeq(monitor'.eventHistory, 1, 99) = Tail(monitor.eventHistory)]_vars

\* 103 events were recorded: the history holds the 4th to the 103rd
C24_Witness ==
  /\ Len(sink) = 103
  /\ Len(Recorded) = 100
  /\ Recorded[1].details.o[<<97, 116, 116, 101, 109, 112, 116>>].n = 4
  /\ Recorded[100].details.o[<<97, 116, 116, 101, 109, 112, 116>>].n = 103

\* the entry of parse call p in pendingResolvers
EntryOf(p) == [id |-> parses[p].requestId, parse |-> p]

\* C25: a reply settles exactly the parse that waits under its id, resolved
\* with the points of GPX_PARSED or rejected with the error of GPX_ERROR,
\* and removes its entry; a parse that waits under another id keeps waiting
\* with its entry, and a settled parse keeps its outcome
C25_ReplyCorrelation ==
  [][\A p \in 1..Len(parses) :
       /\ parses[p].res # Pending => parses'[p].res = parses[p].res
       /\ Waiting(p) =>
            IF Replied(parses[p].requestId)'
            THEN /\ parses'[p].res =
                      IF event'.type = "GPX_PARSED" THEN Resolved(GpxPoints)
                      ELSE Rejected("INVALID_GPX")
                 /\ EntryOf(p) \notin pendingResolvers'
            ELSE /\ parses'[p] = parses[p]
                 /\ EntryOf(p) \in pendingResolvers']_vars

\* the reply to the second request has arrived while the first still waits
C25_Witness ==
  /\ Replied("req_2")
  /\ Len(parses) = 2
  /\ parses[2].requestId = "req_2" /\ parses[2].res = Resolved(GpxPoints)
  /\ Waiting(1) /\ EntryOf(1) \in pendingResolvers
  /\ EntryOf(2) \notin pendingResolvers

\* "__proto__", "constructor", "prototype"
PollutingKeys ==
  {<<95, 95, 112, 114, 111, 116, 111, 95, 95>>,
   <<99, 111, 110, 115, 116, 114, 117, 99, 116, 111, 114>>,
   <<112, 114, 111, 116, 111, 116, 121, 112, 101>>}

\* no object in the value has one of these keys, at any depth
RECURSIVE NoPollutingKey(_)
NoPollutingKey(v) ==
  CASE v.t = "obj" ->
         /\ DOMAIN v.o \cap PollutingKeys = {}
         /\ \A k \in DOMAIN v.o : NoPollutingKey(v.o[k])
    [] v.t = "arr" -> \A i \in 1..Len(v.a) : NoPollutingKey(v.a[i])
    [] OTHER -> TRUE

\* the entries of an object or of an array
EntriesOf(v) == IF v.t = "obj" THEN v.o ELSE ArrayEntries(v.a)

\* out is what is left of in: every string passed through sanitize, every
\* other scalar as it was, every entry of an object or array under its key
\* unless the key is one of the three
RECURSIVE PassedThrough(_, _)
PassedThrough(in, out) ==
  CASE in.t = "str" -> out = Sanitize(in)
    [] in.t \in {"obj", "arr"} ->
         /\ out.t = "obj"
         /\ DOMAIN out.o = DOMAIN EntriesOf(in) \ PollutingKeys
         /\ \A k \in DOMAIN out.o : PassedThrough(EntriesOf(in)[k], out.o[k])
    [] OTHER -> out = in

\* the last step delivered a SANDBOX_MESSAGE of the host origin
PayloadDelivered ==
  /\ event.kind = "message"
  /\ event.origin = HostOrigin
  /\ event.type = "SANDBOX_MESSAGE"

\* C26: what is dispatched for a SANDBOX_MESSAGE has none of the keys
\* __proto__, constructor and prototype at any depth, its strings are
\* sanitized at every depth and its other scalars unchanged, and the event
\* dispatched carries the module id of the message in its name
C26_PayloadSanitized ==
  /\ [](\A d \in dispatched :
          /\ NoPollutingKey(d.detail)
          /\ PassedThrough(d.payload, d.detail))
  /\ [][/\ PayloadDelivered' =>
             /\ \E d \in dispatched' : d.name = event'.id
             /\ \A d \in dispatched' \ dispatched : d.name = event'.id
        /\ ~PayloadDelivered' => dispatched' = dispatched]_vars

\* the nested payload has been dispatched for the module "map", without the
\* keys two levels down and with the string in the array sanitized
C26_Witness ==
  \E d \in dispatched :
    /\ d.name = "map"
    /\ d.payload.t = "obj"
    /\ DOMAIN d.detail.o = {KeyNote, KeyData}
    /\ DOMAIN d.detail.o[KeyData].o = {KeyNote, KeyTarget}
    /\ d.detail.o[KeyData].o[KeyTarget].o[<<48>>]
         = StrV(<<97, 38, 35, 120, 50, 70, 59>>)
    /\ d.detail.o[KeyData].o[KeyTarget].o[<<49>>] = NumV(7)

\* the test write of the last check has been stored
TestWritePersisted ==
  /\ securityStatus.checks > 0
  /\ task[securityStatus.slot].pc = "done"
  /\ task[securityStatus.slot].key = TestKey
  /\ task[securityStatus.slot].res = Resolved(NullV)

\* C27: a check made while the store is READY, whose test write is stored
\* as an envelope with an iv, reports the storage as OK; and the indicator
\* shows OK exactly when the content-policy check and the storage check
\* both passed
C27_StatusCheck ==
  /\ (securityStatus.ready /\ TestWritePersisted)
       => securityStatus.storage = "OK"
  /\ securityStatus.checks > 0 =>
       (securityStatus.text = "OK"
          <=> (securityStatus.csp = "OK" /\ securityStatus.storage = "OK"))

\* the indicator alone follows the two results
C27_IndicatorFollowsChecks ==
  securityStatus.checks > 0 =>
    /\ securityStatus.text \in {"OK", "WARNING"}
    /\ securityStatus.text = "OK"
         <=> (securityStatus.csp = "OK" /\ securityStatus.storage = "OK")

\* the step starts no call of setItem or getItem
NoNewCall == \A t \in Tasks : InFlight(t)' => InFlight(t)

\* the entries clear() removes
ClearedNames ==
  {n \in StorageNames : StartsWith(n, "secure_") \/ n = KeyBlobName}

\* C28: once clear() has returned, no secure_ entry and no key blob comes
\* back unless a call is made afterwards: a setItem or a key derivation that
\* was under way when clear() ran stores nothing when it completes
C28_ClearIsFinal ==
  [][(cleared.on /\ NoNewCall)
       => \A n \in ClearedNames : storage'[n] = Absent]_vars

\* the same for the envelopes alone: a setItem under way stores nothing
C28_NoEnvelopeAfterClear ==
  [][(cleared.on /\ NoNewCall)
       => \A n \in ClearedNames \ {KeyBlobName} : storage'[n] = Absent]_vars

\* the same for the key blob alone: a derivation under way stores nothing
C28_NoKeyBlobAfterClear ==
  [][(cleared.on /\ NoNewCall) => storage'[KeyBlobName] = Absent]_vars

\* a getItem stands in the _initKey() it started: the key blob is removed,
\* the new key is not in this.encryptionKey yet
Rederiving == \E u \in Tasks : task[u].op = "get" /\ task[u].pc = "derive"

\* the key the pending _initKey() installs
NextKey == DeriveKey(DeviceFingerprint)

\* an envelope stored during a re-derivation is under the key being installed
C29_NoEnvelopeUnderReplacedKey ==
  [][\A t \in Tasks :
       (/\ Rederiving
        /\ task[t].op = "set"
        /\ task[t].pc = "encrypt"
        /\ written' # written)
         => task[t].ck = NextKey]_vars

\* a getItem that completes once the re-derivation is over returns the value
\* a setItem stored under its key during the re-derivation
C29_ReadsBackAfterRotation ==
  [][\A t, u \in Tasks :
       (/\ task[t].op = "get"
        /\ InFlight(t)
        /\ ~InFlight(t)'
        /\ task'[t].res.kind = "resolved"
        /\ ~Rederiving
        /\ DoneSet(u)
        /\ task[u].rotating
        /\ task[u].key = task[t].key
        /\ task[u].key # "shoes"
        /\ lastSet[task[t].key].has
        /\ lastSet[task[t].key].v = task[u].value)
         => task'[t].res = Resolved(task[u].value)]_vars

\* C29: a setItem(k, v) that runs while a getItem on another key is between
\* discarding the persisted key and installing the new one is not lost:
\* getItem(k) returns v afterwards, and no envelope is written under the key
\* that is being replaced
C29_RotationKeepsWrites ==
  /\ C29_NoEnvelopeUnderReplacedKey
  /\ C29_ReadsBackAfterRotation
\* the step is the timer callback of the c-th createSandbox call
TimerRuns(c) ==
  /\ c \in 1..Len(creations)
  /\ creations[c].timer = "armed"
  /\ creations'[c].timer = "fired"

\* the pending entry of the module id belongs to another call than the c-th
EntryOfAnother(m, c) ==
  IF pendingMessages[m].kind = "entry" THEN pendingMessages[m].call # c
  ELSE FALSE

\* C30: the timer of an earlier createSandbox call leaves the pending entry
\* of a later call for the same module id alone: an entry is removed by the
\* timer of its own call only
C30_StaleTimerHarmless ==
  [][\A c \in 1..MaxCreates, m \in ModuleIds :
       (TimerRuns(c) /\ EntryOfAnother(m, c))
         => pendingMessages'[m] = pendingMessages[m]]_vars

====
